---- MODULE Spec2Model ----
(***************************************************************************)
(* Stroke detection of PercussionPracticeTool: the AudioWorklet processor  *)
(* (public/worklets/stroke-processor.js) and the useStrokeDetector hook    *)
(* with its ScriptProcessor fallback (the hook as it stands in             *)
(* src/src/types.ts, lines 88-333).                                        *)
(*                                                                         *)
(* Units.  Amplitudes of samples are integers in thousandths of full scale *)
(* (milli); rms and the floor are kept in millionths (micro); decibels are *)
(* integers in tenths of a dB (deci-dB); sensitivity is kept times ten;    *)
(* alpha is kept in hundredths; times are in thirds of a millisecond (one  *)
(* 128-frame render quantum at 48 kHz is 8 such units).                    *)
(* A block of audio is modelled as len samples of one magnitude amp, so    *)
(* that its rms and its peak are amp and its energy is len * amp^2.        *)
(***************************************************************************)
EXTENDS Integers, Sequences, FiniteSets, TLC

\* ------------------------------------------------------------------ bounds
MaxStarts == 2
MaxBlocks == 1
MaxCfgBlocks == 2
MaxUpdates == 1
MaxRunBlocks == 13
MaxFallbackRunBlocks == 5
MaxLoud == 3
MaxDualBlocks == 4
MaxSettle == 3
MaxMonoBlocks == 4
MaxFloorBlocks == 3
MaxPartialBlocks == 4
MaxMessages == 1
MaxSeqBlocks == 3
MaxEmptyBlocks == 2
MaxMetStarts == 2
MaxMetRaf == 5
MaxMetTicks == 3
MaxMetSets == 1

\* ------------------------------------------------------- program constants
SampleRateKHz == 48
QuantumFrames == 128
ScriptFrames == 1024
QuantumTime == 8
EpsNano == 1
DbPerLog2Milli == 60206

\* ----------------------------------------------------------- arithmetic
Max(a, b) == IF a >= b THEN a ELSE b
Min(a, b) == IF a <= b THEN a ELSE b
Abs(x) == IF x < 0 THEN -x ELSE x

RECURSIVE Pow2(_)
Pow2(e) == IF e = 0 THEN 1 ELSE 2 * Pow2(e - 1)

RECURSIVE Log2Floor(_)
Log2Floor(n) == IF n < 2 THEN 0 ELSE 1 + Log2Floor(n \div 2)

\* The fractional bits of log2 of a mantissa m in [1,2), m held times 2^14:
\* square, and take a bit each time the square reaches 2.
RECURSIVE Log2Frac(_, _)
Log2Frac(m, bits) ==
  IF bits = 0 THEN 0
  ELSE LET sq == (m * m) \div 16384
       IN IF sq >= 32768
            THEN Pow2(bits - 1) + Log2Frac(sq \div 2, bits - 1)
            ELSE Log2Frac(sq, bits - 1)

\* log2(n) times 256, for n >= 1.
Log2Q8(n) ==
  LET e == Log2Floor(n)
      m == IF e >= 14 THEN n \div Pow2(e - 14) ELSE n * Pow2(14 - e)
  IN e * 256 + Log2Frac(m, 8)

\* 20 * Math.log10(x + 1e-9) in deci-dB, x in millionths:
\* x + 1e-9 is (1000 x + 1) billionths, and 1e-9 is -180 dB.
ToDb(xMicro) ==
  (Log2Q8(1000 * xMicro + EpsNano) * DbPerLog2Milli) \div 256000 - 1800

\* Math.sqrt on the integers (the floor of the root), by bisection of lo..hi.
RECURSIVE SqrtIn(_, _, _)
SqrtIn(v, lo, hi) ==
  IF lo >= hi THEN lo
  ELSE LET mid == (lo + hi + 1) \div 2
       IN IF mid * mid <= v THEN SqrtIn(v, mid, hi) ELSE SqrtIn(v, lo, mid - 1)
Sqrt(v) == SqrtIn(v, 0, 1000)

\* ------------------------------------------------------------- the state
VARIABLES
  isRunning,        \* useState(false)
  status,           \* useState("idle")
  config,           \* useState(defaultConfig)
  configDirty,      \* the [config] effect has not run for the current config
  rIsRunning,       \* isRunning as of the last render: what start's closure reads
  rStatus,          \* status as of the last render: what the caller sees
  rConfig,          \* config as of the last render: what start's closure reads
  streamRef, ctxRef, workletNodeRef, scriptNodeRef,   \* 0 is null, else a call's id
  runIdRef, seqRef, floorRef, lastHitRef,
  calls,            \* the start() invocations: position, merged, runId
  trackLive,        \* per call: its microphone track is live
  ctxState,         \* per call: its AudioContext: "none", "open", "closed"
  ctxTime,          \* per call: its AudioContext's currentTime
  wk,               \* per call: its StrokeProcessor
  wkIn,             \* per call: messages posted to the processor, not yet received
  wkOut,            \* per call: messages posted by the processor, not yet received
  portOpen,         \* per call: the node's port on the main thread is not closed
  fb,               \* per call: its ScriptProcessor closure (pendingMeasure)
  perfNow,          \* performance.now()
  delivered,        \* the calls of onStroke, onStrokeMeasure, onTelemetry
  strokes,          \* the onsets accepted, with the clock and debounce that decided
  lastBlock,        \* the last block processed: by which node and with what sensitivity
  stopped,          \* stop() has returned and start() was not called since
  updatedRunning,   \* the last updateConfig() was made while running
  nStarts, nBlocks, nLoud, nUpdates,
  probe             \* the arguments and results of the last function applied by itself

\* The state of useMetronome: what the hook holds, the audio contexts and
\* animation-frame callbacks its calls made, and what was scheduled.
VARIABLES
  metConfig,        \* useState: config (tempo, subdivision, volume in hundredths)
  metIsRunning,     \* useState: isRunning
  metRIsRunning,    \* isRunning as of the last render, which start() closes over
  metConfigRef,     \* configRef.current, set from config by every render
  metCtxRef,        \* ctxRef.current: the context's id, 0 for null
  metNextNoteTime,  \* nextNoteTimeRef.current, in milliseconds
  metRafRef,        \* rafRef.current: the id requestAnimationFrame returned, 0 for null
  metBeatCount,     \* beatCountRef.current
  metCtx,           \* the AudioContexts made: state and currentTime in milliseconds
  metRaf,           \* the animation-frame callbacks requested and still to run
  metCalls,         \* the invocations of start(): where each one stands
  metLoop,          \* the last schedule() that got to its loop: how it ended, the
                    \* clock it read and the run it was of; how many there were,
                    \* and the ramp targets asked for so far
  clicks,           \* the clicks created, in order
  metRun,           \* how many times start() has anchored a run, and the last anchor
  metStopped,       \* stop() has returned and start() was not called since
  nMetStarts, nMetRaf, nMetTicks, nMetSets

metVars == <<metConfig, metIsRunning, metRIsRunning, metConfigRef, metCtxRef,
             metNextNoteTime, metRafRef, metBeatCount, metCtx, metRaf, metCalls, metLoop,
             clicks, metRun, metStopped, nMetStarts, nMetRaf, nMetTicks, nMetSets>>

hookVars == <<isRunning, status, config, configDirty, rIsRunning, rStatus, rConfig>>
refVars == <<streamRef, ctxRef, workletNodeRef, scriptNodeRef, runIdRef, seqRef,
             floorRef, lastHitRef>>
resVars == <<trackLive, ctxState, ctxTime>>
nodeVars == <<wk, wkIn, wkOut, portOpen, fb>>
logVars == <<delivered, strokes, lastBlock, stopped, updatedRunning>>
cntVars == <<nStarts, nBlocks, nLoud, nUpdates>>
detVars == <<hookVars, refVars, calls, resVars, nodeVars, perfNow, logVars, cntVars,
             probe>>
vars == <<detVars, metVars>>

Calls == 1 .. MaxStarts

\* ------------------------------------------------------------ the inputs
\* DetectorConfig; defaultConfig of the hook.
defaultConfig ==
  [sensitivity |-> 13, debounceMs |-> 15, minDb |-> -600, alpha |-> 10,
   measureWindowMs |-> 30]

\* What start(customConfig) is called with: nothing, or a short debounce and
\* measurement window.
CustomConfigs == { <<>>, [debounceMs |-> 5, measureWindowMs |-> 2] }

\* What updateConfig(next) is called with.
ConfigUpdates == { [sensitivity |-> 40] }

\* The magnitude of a block's samples: silence, room noise, a stroke.
Amplitudes == {2, 400}

\* currentTime of the context when its processor is constructed.
StartTimes == {120}

\* How far performance.now() moves between two onaudioprocess callbacks:
\* callbacks that pile up after a stall, and the 1024-frame period.
PerfSteps == {3, 64}
PerfStart == 3000

\* {...a, ...b}: b's fields over a's.
Merge(a, b) == b @@ a

\* ------------------------------------------------- the measurement window
NoPending == [open |-> FALSE, seq |-> 0, remaining |-> 0, sumSquares |-> 0,
              peakAbs |-> 0, count |-> 0]

\* Math.max(1, Math.round(sampleRate * measureWindowMs / 1000))
MeasureWindowFrames(ms) == Max(1, SampleRateKHz * ms)

OpenPending(seq, frames) ==
  [open |-> TRUE, seq |-> seq, remaining |-> frames, sumSquares |-> 0,
   peakAbs |-> 0, count |-> 0]

\* _accumulateMeasure / accumulateMeasure: the pending measurement after a
\* block of len samples of magnitude amp, and the measurement it finalizes.
AccumulateMeasure(pending, amp, len) ==
  IF ~pending.open THEN [pending |-> pending, done |-> FALSE, m |-> NoPending]
  ELSE LET toProcess == Min(pending.remaining, len)
           acc == [pending EXCEPT
                     !.sumSquares = @ + toProcess * amp * amp,
                     !.count = @ + toProcess,
                     !.peakAbs = IF toProcess > 0 /\ amp > @ THEN amp ELSE @,
                     !.remaining = @ - toProcess]
       IN IF acc.remaining <= 0
            THEN [pending |-> NoPending, done |-> TRUE, m |-> acc]
            ELSE [pending |-> acc, done |-> FALSE, m |-> NoPending]

\* The stroke-measure payload of a finalized window.
MeasureOf(m, runId) ==
  LET rms == 1000 * Sqrt(m.sumSquares \div Max(1, m.count))
  IN [type |-> "stroke-measure", seq |-> m.seq, runId |-> runId, rms |-> rms,
      db |-> ToDb(rms), peakDb |-> ToDb(1000 * m.peakAbs)]

\* -------------------------------------------------- the worklet processor
\* StrokeProcessor's constructor.
NewProcessor(id) ==
  [exists |-> TRUE, energySMA |-> 0, alpha |-> 5, minDb |-> -550,
   sensitivity |-> 15, debounceMs |-> 35, lastHitTime |-> 0,
   measureWindowMs |-> 30, measureWindowFrames |-> MeasureWindowFrames(30),
   pendingMeasure |-> NoPending, hitSeq |-> 0, runId |-> 100 + id]

NoProcessor == [NewProcessor(0) EXCEPT !.exists = FALSE, !.runId = 0]

Has(msg, f) == f \in DOMAIN msg

\* OnConfig with the constructor's value for every field the message lacks.
OnConfigOrDefault(p, data) ==
  LET c == data.cfg
      d == NewProcessor(0)
  IN [p EXCEPT
        !.sensitivity = IF Has(c, "sensitivity") THEN c.sensitivity ELSE d.sensitivity,
        !.debounceMs = IF Has(c, "debounceMs") THEN c.debounceMs ELSE d.debounceMs,
        !.minDb = IF Has(c, "minDb") THEN c.minDb ELSE d.minDb,
        !.alpha = IF Has(c, "alpha") THEN c.alpha ELSE d.alpha]

\* port.onmessage of the processor: a config message, field by field.
OnConfig(p, data) ==
  IF data.type # "config" THEN p ELSE
  LET c == data.cfg
      p1 == [p EXCEPT
               !.sensitivity = IF Has(c, "sensitivity") THEN c.sensitivity ELSE @,
               !.debounceMs = IF Has(c, "debounceMs") THEN c.debounceMs ELSE @,
               !.minDb = IF Has(c, "minDb") THEN c.minDb ELSE @,
               !.alpha = IF Has(c, "alpha") THEN c.alpha ELSE @]
      p2 == IF Has(c, "measureWindowMs")
              THEN [p1 EXCEPT !.measureWindowMs = c.measureWindowMs,
                              !.measureWindowFrames =
                                 MeasureWindowFrames(c.measureWindowMs)]
              ELSE p1
  IN IF data.runId # 0 THEN [p2 EXCEPT !.runId = data.runId] ELSE p2

\* this.alpha * rms + (1 - this.alpha) * this.energySMA
WorkletFloor(alpha, rms, energySMA) == (alpha * rms + (100 - alpha) * energySMA) \div 100

\* WorkletThreshold without the lower bound minDb.
WorkletThresholdUnclamped(floorDb, sensitivity, minDb) == floorDb + sensitivity * 6

\* WorkletThreshold with the offset taken off the floor.
WorkletThresholdBelowFloor(floorDb, sensitivity, minDb) ==
  Max(floorDb - sensitivity * 6, minDb)

\* Math.max(floorDb + this.sensitivity * 6, this.minDb)
WorkletThreshold(floorDb, sensitivity, minDb) == Max(floorDb + sensitivity * 6, minDb)

\* DebounceOver comparing time in thirds of a millisecond with debounceMs in
\* milliseconds: a debounce a third as long as configured.
DebounceOverRawUnits(now, lastHit, debounceMs) == now - lastHit > debounceMs

\* nowMs - lastHit > debounceMs, the times in thirds of a millisecond.
DebounceOver(now, lastHit, debounceMs) == now - lastHit > 3 * debounceMs

\* WorkletIsOnset with the comparison of rms and floor the other way round.
WorkletIsOnsetBelowFloor(db, thresholdDb, rms, floor, sensitivity, now, lastHit, debounceMs) ==
  /\ 10 * rms < floor * sensitivity
  /\ DebounceOver(now, lastHit, debounceMs)

\* WorkletIsOnset without the debounce test.
WorkletIsOnsetAnyTime(db, thresholdDb, rms, floor, sensitivity, now, lastHit, debounceMs) ==
  /\ db > thresholdDb
  /\ 10 * rms > floor * sensitivity

\* The worklet's onset test (process, lines 89-90).
WorkletIsOnset(db, thresholdDb, rms, floor, sensitivity, now, lastHit, debounceMs) ==
  /\ db > thresholdDb
  /\ 10 * rms > floor * sensitivity
  /\ DebounceOver(now, lastHit, debounceMs)

\* process(): the processor after a block of len samples of magnitude amp at
\* currentTime now, and the messages it posts; tel is Math.random() < 0.002.
WorkletProcess(p, amp, len, now, tel) ==
  LET rms == 1000 * amp
      db == ToDb(rms)
      peakDb == ToDb(1000 * amp)
      sma == WorkletFloor(p.alpha, rms, p.energySMA)
      floorDb == ToDb(sma)
      thr == WorkletThreshold(floorDb, p.sensitivity, p.minDb)
      hit == WorkletIsOnset(db, thr, rms, sma, p.sensitivity, now, p.lastHitTime,
                            p.debounceMs)
      seq == p.hitSeq + 1
      pend == IF hit THEN OpenPending(seq, p.measureWindowFrames)
              ELSE p.pendingMeasure
      acc == AccumulateMeasure(pend, amp, len)
      stroke == [type |-> "stroke", seq |-> seq, runId |-> p.runId, db |-> db,
                 peakDb |-> peakDb, rms |-> rms, at |-> now, floorDb |-> floorDb,
                 thresholdDb |-> thr]
      telemetry == [type |-> "telemetry", db |-> db, floorDb |-> floorDb,
                    thresholdDb |-> thr]
  IN [p |-> [p EXCEPT !.energySMA = sma,
                      !.lastHitTime = IF hit THEN now ELSE @,
                      !.hitSeq = IF hit THEN seq ELSE @,
                      !.pendingMeasure = acc.pending],
      hit |-> hit,
      out |-> (IF hit THEN <<stroke>> ELSE <<>>)
              \o (IF acc.done THEN <<MeasureOf(acc.m, p.runId)>> ELSE <<>>)
              \o (IF tel THEN <<telemetry>> ELSE <<>>)]

\* What a division of 0 by 0 leaves in a number: NaN.
NaN == -1

\* Process without the two early returns: the rms of no samples is
\* Math.sqrt(0 / 0), which the floor takes over, and the telemetry may follow.
ProcessUnguarded(p, channels, amp, len, now, tel) ==
  IF channels = 0 \/ len = 0
    THEN [p |-> [p EXCEPT !.energySMA = NaN], hit |-> FALSE,
          out |-> IF tel THEN <<[type |-> "telemetry", db |-> NaN, floorDb |-> NaN,
                                 thresholdDb |-> NaN]>>
                  ELSE <<>>]
    ELSE WorkletProcess(p, amp, len, now, tel)

\* process() from its first line: a block without an input channel, or with a
\* channel of no samples, returns at once (lines 65-70).
Process(p, channels, amp, len, now, tel) ==
  IF channels = 0 \/ len = 0
    THEN [p |-> p, hit |-> FALSE, out |-> <<>>]
    ELSE WorkletProcess(p, amp, len, now, tel)

\* ------------------------------------------------- the fallback processor
\* merged.alpha * rms + (1 - merged.alpha) * floorRef.current
FallbackFloor(alpha, rms, floor) == (alpha * rms + (100 - alpha) * floor) \div 100

\* FallbackThreshold with half the offset per unit of sensitivity.
FallbackThresholdHalfOffset(floorDb, sensitivity, minDb) ==
  Max(floorDb + sensitivity * 3, minDb)

\* Math.max(floorDb + merged.sensitivity * 6, merged.minDb)
FallbackThreshold(floorDb, sensitivity, minDb) == Max(floorDb + sensitivity * 6, minDb)

\* FallbackIsOnset without the debounce test.
FallbackIsOnsetAnyTime(db, thresholdDb, now, lastHit, debounceMs) == db > thresholdDb

\* The fallback's onset test (onaudioprocess, line 280).
FallbackIsOnset(db, thresholdDb, now, lastHit, debounceMs) ==
  /\ db > thresholdDb
  /\ now - lastHit > 3 * debounceMs

\* onaudioprocess of the start() invocation whose merged config and runId are
\* given: the refs and the closure's pendingMeasure after the block, and the
\* callbacks made.
FallbackProcess(merged, runId, pending, floor, lastHit, seqNo, amp, len, now) ==
  LET rms == 1000 * amp
      newFloor == FallbackFloor(merged.alpha, rms, floor)
      floorDb == ToDb(newFloor)
      db == ToDb(rms)
      peakDb == ToDb(1000 * amp)
      thr == FallbackThreshold(floorDb, merged.sensitivity, merged.minDb)
      hit == FallbackIsOnset(db, thr, now, lastHit, merged.debounceMs)
      seq == seqNo + 1
      pend == IF hit
                THEN OpenPending(seq, MeasureWindowFrames(merged.measureWindowMs))
                ELSE pending
      acc == AccumulateMeasure(pend, amp, len)
      stroke == [type |-> "stroke", seq |-> seq, runId |-> runId, db |-> db,
                 peakDb |-> peakDb, rms |-> rms, at |-> now, floorDb |-> floorDb,
                 thresholdDb |-> thr]
      telemetry == [type |-> "telemetry", db |-> db, floorDb |-> floorDb,
                    thresholdDb |-> thr]
  IN [floor |-> newFloor,
      lastHit |-> IF hit THEN now ELSE lastHit,
      seqNo |-> IF hit THEN seq ELSE seqNo,
      pending |-> acc.pending,
      hit |-> hit,
      out |-> (IF hit THEN <<stroke>> ELSE <<>>)
              \o (IF acc.done THEN <<MeasureOf(acc.m, runId)>> ELSE <<>>)
              \o <<telemetry>>]

\* ------------------------------------------------------------ the metronome
\* What useMetronome(initial) is called with, and what setTempo, setSubdivision
\* and setVolume are called with: tempi and subdivisions whose beat length is a
\* whole number of milliseconds, a negative tempo among them (the setters take
\* any number), and volumes in hundredths from both ends of the slider.
MetInitial == [tempo |-> 120, subdivision |-> 1, volume |-> 60]
Tempos == {120, 240, -120}
Subdivisions == {1, 2}
Volumes == {60, 100, 0}

\* How far the audio clock moves between two steps: an animation frame, and a
\* stall longer than the lookahead.
MetSteps == {16, 300}

\* const lookahead = 0.1 and the lead-in of start(), in milliseconds.
Lookahead == 100
LeadIn == 50

MetCalls == 1 .. MaxMetStarts
RafIds == 1 .. MaxMetRaf

\* The quotient of two numbers of either sign, for a whole-number result.
Quot(a, b) == IF b < 0 THEN -(a \div (-b)) ELSE a \div b

\* SecondsPerBeat without the division by the subdivision.
SecondsPerBeatOfTempo(cfg) == Quot(60000, cfg.tempo)

\* 60 / localConfig.tempo / localConfig.subdivision, in milliseconds.
SecondsPerBeat(cfg) == Quot(Quot(60000, cfg.tempo), cfg.subdivision)

\* IsAccent one beat late: the beat after a multiple of the subdivision.
IsAccentOffBeat(beatCount, cfg) == beatCount % cfg.subdivision = 1

\* beatCountRef.current % localConfig.subdivision === 0
IsAccent(beatCount, cfg) == beatCount % cfg.subdivision = 0

\* createClick(ctx, time, accent, volume): what is fixed of a click when it is
\* created; run, anchor and index say which beat of which run it is, tempo
\* and subdivision what the loop read when it made it.
CreateClick(ctx, time, accent, volume, run, index, cfg) ==
  [ctx |-> ctx, time |-> time, accent |-> accent, volume |-> volume,
   run |-> run.n, anchor |-> run.anchor, index |-> index, tempo |-> cfg.tempo,
   subdivision |-> cfg.subdivision]

\* The targets createClick passes to exponentialRampToValueAtTime, in
\* ten-thousandths: the volume, and 0.0001 for the decay.
RampFloor == 1
RampTargets(volume) == {100 * volume, RampFloor}

\* exponentialRampToValueAtTime(volume, ...) throws a RangeError on a target
\* of 0, and createClick and schedule() end there.
ClickThrows(volume) == 100 * volume = 0

\* The ramp targets of the clicks made.
TargetsOf(made) == UNION {RampTargets(made[i].volume) : i \in 1 .. Len(made)}

\* The while loop of schedule(): the beats before now + lookahead, from
\* nextNoteTime and beatCount on; the refs after it, the clicks it made and
\* the ramp targets it asked for. A createClick that throws ends it before the
\* refs move on; a beat length that is not positive keeps its condition true
\* for good, and it never returns.
RECURSIVE ScheduleLoop(_, _, _, _, _, _, _)
ScheduleLoop(next, beat, now, cfg, ctx, run, made) ==
  IF next < now + Lookahead
    THEN IF ClickThrows(cfg.volume)
           THEN [nextNoteTime |-> next, beatCount |-> beat, made |-> made,
                 outcome |-> "threw",
                 targets |-> TargetsOf(made) \cup {100 * cfg.volume}]
         ELSE LET click == CreateClick(ctx, next, IsAccent(beat, cfg),
                                       cfg.volume, run, beat, cfg)
              IN IF SecondsPerBeat(cfg) <= 0
                   THEN [nextNoteTime |-> next + SecondsPerBeat(cfg),
                         beatCount |-> beat + 1, made |-> Append(made, click),
                         outcome |-> "hung",
                         targets |-> TargetsOf(Append(made, click))]
                   ELSE ScheduleLoop(next + SecondsPerBeat(cfg), beat + 1, now,
                                     cfg, ctx, run, Append(made, click))
    ELSE [nextNoteTime |-> next, beatCount |-> beat, made |-> made,
          outcome |-> "returned", targets |-> TargetsOf(made)]

\* schedule() is in its loop for good, and nothing else runs on its thread.
MetHung == metLoop.outcome = "hung"

NoCtx == [state |-> "none", currentTime |-> 0]

MetInit ==
  /\ metConfig = MetInitial /\ metConfigRef = MetInitial
  /\ metIsRunning = FALSE /\ metRIsRunning = FALSE
  /\ metCtxRef = 0 /\ metNextNoteTime = 0 /\ metRafRef = 0 /\ metBeatCount = 0
  /\ metCtx = [k \in MetCalls |-> NoCtx]
  /\ metRaf = {}
  /\ metCalls = [k \in MetCalls |-> "none"]
  /\ metLoop = [outcome |-> "idle", targets |-> {}, calls |-> 0, now |-> 0,
                run |-> 0]
  /\ clicks = <<>>
  /\ metRun = [n |-> 0, anchor |-> 0]
  /\ metStopped = FALSE
  /\ nMetStarts = 0 /\ nMetRaf = 0 /\ nMetTicks = 0 /\ nMetSets = 0

\* A render of the component that uses the hook: configRef.current = config,
\* and start is made anew over the isRunning of this render.
MetRender ==
  /\ ~MetHung
  /\ metConfigRef # metConfig \/ metRIsRunning # metIsRunning
  /\ metConfigRef' = metConfig
  /\ metRIsRunning' = metIsRunning
  /\ UNCHANGED <<detVars, metLoop, metConfig, metIsRunning, metCtxRef, metNextNoteTime,
                 metRafRef, metBeatCount, metCtx, metRaf, metCalls, clicks, metRun,
                 metStopped, nMetStarts, nMetRaf, nMetTicks, nMetSets>>

\* MetSetConfig reaching back to the clicks already created: a new volume is
\* given to them as well.
MetSetConfigRetroactive(field, value) ==
  /\ ~MetHung
  /\ nMetSets < MaxMetSets
  /\ nMetSets' = nMetSets + 1
  /\ metConfig' = [metConfig EXCEPT ![field] = value]
  /\ clicks' = [i \in 1 .. Len(clicks) |->
                  IF field = "volume" THEN [clicks[i] EXCEPT !.volume = value]
                  ELSE clicks[i]]
  /\ UNCHANGED <<detVars, metLoop, metIsRunning, metRIsRunning, metConfigRef, metCtxRef,
                 metNextNoteTime, metRafRef, metBeatCount, metCtx, metRaf, metCalls,
                 metRun, metStopped, nMetStarts, nMetRaf, nMetTicks>>

\* setTempo, setSubdivision, setVolume: setConfig with one field replaced.
MetSetConfig(field, value) ==
  /\ ~MetHung
  /\ nMetSets < MaxMetSets
  /\ nMetSets' = nMetSets + 1
  /\ metConfig' = [metConfig EXCEPT ![field] = value]
  /\ UNCHANGED <<detVars, metLoop, metIsRunning, metRIsRunning, metConfigRef, metCtxRef,
                 metNextNoteTime, metRafRef, metBeatCount, metCtx, metRaf, metCalls,
                 clicks, metRun, metStopped, nMetStarts, nMetRaf, nMetTicks>>

\* start() up to its await of ctx.resume(); a call that the guard turns away
\* returns at once.
MetStartCall ==
  /\ ~MetHung
  /\ nMetStarts < MaxMetStarts
  /\ nMetStarts' = nMetStarts + 1
  /\ metStopped' = FALSE
  /\ IF metRIsRunning
       THEN UNCHANGED <<metCtxRef, metCtx, metCalls>>
       ELSE LET k == nMetStarts + 1
            IN /\ metCtx' = [metCtx EXCEPT ![k] = [state |-> "suspended",
                                                   currentTime |-> 0]]
               /\ metCtxRef' = k
               /\ metCalls' = [metCalls EXCEPT ![k] = "resume"]
  /\ UNCHANGED <<detVars, metLoop, metConfig, metIsRunning, metRIsRunning, metConfigRef,
                 metNextNoteTime, metRafRef, metBeatCount, metRaf, clicks, metRun,
                 nMetRaf, nMetTicks, nMetSets>>

\* requestAnimationFrame(schedule): a new callback to run, its id in rafRef.
RequestFrame(pending) ==
  [raf |-> pending \cup {nMetRaf + 1}, rafRef |-> nMetRaf + 1]

\* ctx.resume() of invocation k settles. It rejects only on a context that
\* stop() has closed, and start() ends there; it resolves on an open context,
\* or when it had settled before stop() closed the context, and start() then
\* anchors the run, resets the beat counter and requests the first frame.
MetResumed(k, settled) ==
  /\ ~MetHung
  /\ metCalls[k] = "resume"
  /\ settled = "rejected" => metCtx[k].state = "closed"
  /\ IF settled = "rejected"
       THEN /\ metCalls' = [metCalls EXCEPT ![k] = "failed"]
            /\ UNCHANGED <<metCtx, metNextNoteTime, metBeatCount, metIsRunning,
                           metRaf, metRafRef, metRun, nMetRaf>>
       ELSE /\ nMetRaf < MaxMetRaf
            /\ metCalls' = [metCalls EXCEPT ![k] = "done"]
            /\ metCtx' = [metCtx EXCEPT ![k].state =
                            IF @ = "closed" THEN "closed" ELSE "running"]
            /\ metNextNoteTime' = metCtx[k].currentTime + LeadIn
            /\ metBeatCount' = 0
            /\ metIsRunning' = TRUE
            /\ metRaf' = RequestFrame(metRaf).raf
            /\ metRafRef' = RequestFrame(metRaf).rafRef
            /\ nMetRaf' = nMetRaf + 1
            /\ metRun' = [n |-> metRun.n + 1,
                          anchor |-> metCtx[k].currentTime + LeadIn]
  /\ UNCHANGED <<detVars, metLoop, metConfig, metRIsRunning, metConfigRef, metCtxRef, clicks,
                 metStopped, nMetStarts, nMetTicks, nMetSets>>

\* An animation frame: the callback with the given id runs schedule(), which
\* returns at once without a context, and requests the next frame only when
\* its loop has returned.
MetFrame(id) ==
  /\ ~MetHung
  /\ id \in metRaf
  /\ IF metCtxRef = 0
       THEN /\ metRaf' = metRaf \ {id}
            /\ UNCHANGED <<metNextNoteTime, metBeatCount, clicks, metRafRef, nMetRaf,
                           metLoop>>
       ELSE LET r == ScheduleLoop(metNextNoteTime, metBeatCount,
                                  metCtx[metCtxRef].currentTime, metConfigRef,
                                  metCtxRef, metRun, <<>>)
            IN /\ metNextNoteTime' = r.nextNoteTime
               /\ metBeatCount' = r.beatCount
               /\ clicks' = clicks \o r.made
               /\ metLoop' = [outcome |-> r.outcome,
                              targets |-> metLoop.targets \cup r.targets,
                              calls |-> metLoop.calls + 1,
                              now |-> metCtx[metCtxRef].currentTime,
                              run |-> metRun.n]
               /\ IF r.outcome = "returned"
                    THEN /\ nMetRaf < MaxMetRaf
                         /\ metRaf' = RequestFrame(metRaf \ {id}).raf
                         /\ metRafRef' = RequestFrame(metRaf \ {id}).rafRef
                         /\ nMetRaf' = nMetRaf + 1
                    ELSE /\ metRaf' = metRaf \ {id}
                         /\ UNCHANGED <<metRafRef, nMetRaf>>
  /\ UNCHANGED <<detVars, metConfig, metIsRunning, metRIsRunning, metConfigRef,
                 metCtxRef, metCtx, metCalls, metRun, metStopped, nMetStarts,
                 nMetTicks, nMetSets>>

\* The audio clock of every running context moves on by dt.
MetTick(dt) ==
  /\ nMetTicks < MaxMetTicks
  /\ \E k \in MetCalls : metCtx[k].state = "running"
  /\ nMetTicks' = nMetTicks + 1
  /\ metCtx' = [k \in MetCalls |->
                  IF metCtx[k].state = "running"
                    THEN [metCtx[k] EXCEPT !.currentTime = @ + dt]
                    ELSE metCtx[k]]
  /\ UNCHANGED <<detVars, metLoop, metConfig, metIsRunning, metRIsRunning, metConfigRef,
                 metCtxRef, metNextNoteTime, metRafRef, metBeatCount, metRaf,
                 metCalls, clicks, metRun, metStopped, nMetStarts, nMetRaf, nMetSets>>

\* MetStop without cancelAnimationFrame and without ctxRef.current = null.
MetStopLeavesLoop ==
  /\ ~MetHung
  /\ metIsRunning' = FALSE
  /\ metCtx' = IF metCtxRef # 0
                 THEN [metCtx EXCEPT ![metCtxRef].state = "closed"] ELSE metCtx
  /\ metStopped' = TRUE
  /\ UNCHANGED <<detVars, metLoop, metConfig, metRIsRunning, metConfigRef, metNextNoteTime,
                 metRafRef, metBeatCount, metCalls, clicks, metRun, nMetStarts,
                 nMetRaf, nMetTicks, nMetSets, metRaf, metCtxRef>>

\* stop() of the metronome: cancelAnimationFrame of the id in rafRef, close()
\* of the context in ctxRef, ctxRef set to null (rafRef is not).
MetStop ==
  /\ ~MetHung
  /\ metIsRunning' = FALSE
  /\ metRaf' = metRaf \ {metRafRef}
  /\ metCtx' = IF metCtxRef # 0
                 THEN [metCtx EXCEPT ![metCtxRef].state = "closed"] ELSE metCtx
  /\ metCtxRef' = 0
  /\ metStopped' = TRUE
  /\ UNCHANGED <<detVars, metLoop, metConfig, metRIsRunning, metConfigRef, metNextNoteTime,
                 metRafRef, metBeatCount, metCalls, clicks, metRun, nMetStarts,
                 nMetRaf, nMetTicks, nMetSets>>

\* ------------------------------------------------------------ the hook
NoProbe == [op |-> "none"]
NoCall == [pc |-> "none", merged |-> defaultConfig, runId |-> 0]
NoBlock == [call |-> 0, sens |-> 0, want |-> 0, afterUpdate |-> FALSE]

Init ==
  /\ isRunning = FALSE /\ status = "idle" /\ config = defaultConfig
  /\ configDirty = FALSE
  /\ rIsRunning = FALSE /\ rStatus = "idle" /\ rConfig = defaultConfig
  /\ streamRef = 0 /\ ctxRef = 0 /\ workletNodeRef = 0 /\ scriptNodeRef = 0
  /\ runIdRef = 0 /\ seqRef = 0 /\ floorRef = 0 /\ lastHitRef = 0
  /\ calls = [c \in Calls |-> NoCall]
  /\ trackLive = [c \in Calls |-> FALSE]
  /\ ctxState = [c \in Calls |-> "none"]
  /\ ctxTime = [c \in Calls |-> 0]
  /\ wk = [c \in Calls |-> NoProcessor]
  /\ wkIn = [c \in Calls |-> <<>>]
  /\ wkOut = [c \in Calls |-> <<>>]
  /\ portOpen = [c \in Calls |-> FALSE]
  /\ fb = [c \in Calls |-> [exists |-> FALSE, connected |-> FALSE,
                            pendingMeasure |-> NoPending]]
  /\ perfNow = PerfStart
  /\ delivered = <<>> /\ strokes = <<>> /\ lastBlock = NoBlock
  /\ stopped = FALSE /\ updatedRunning = FALSE
  /\ nStarts = 0 /\ nBlocks = 0 /\ nLoud = 0 /\ nUpdates = 0
  /\ MetInit /\ probe = NoProbe

\* A render: the closures and the caller see the state, and the [config]
\* effect runs when config was set since the last one.
Render ==
  /\ configDirty \/ <<rIsRunning, rStatus, rConfig>> # <<isRunning, status, config>>
  /\ rIsRunning' = isRunning /\ rStatus' = status /\ rConfig' = config
  /\ configDirty' = FALSE
  /\ wkIn' = IF configDirty /\ workletNodeRef # 0
               THEN [wkIn EXCEPT ![workletNodeRef] =
                       Append(@, [type |-> "config", cfg |-> config, runId |-> 0])]
               ELSE wkIn
  /\ UNCHANGED <<metVars, probe, isRunning, status, config, refVars, calls, resVars, wk, wkOut,
                 portOpen, fb, perfNow, logVars, cntVars>>

\* updateConfig(next)
UpdateConfig(next) ==
  /\ nUpdates < MaxUpdates
  /\ nUpdates' = nUpdates + 1
  /\ config' = Merge(config, next)
  /\ configDirty' = TRUE
  /\ updatedRunning' = (status = "running" /\ rStatus = "running")
  /\ UNCHANGED <<metVars, probe, isRunning, status, rIsRunning, rStatus, rConfig, refVars, calls,
                 resVars, nodeVars, perfNow, delivered, strokes, lastBlock, stopped,
                 nStarts, nBlocks, nLoud>>

\* The guard of start(): isRunning of the render that made the callback.
StartGuard == ~rIsRunning

\* start(customConfig) up to its await of getUserMedia; a call that the guard
\* turns away returns at once.
StartCall(custom, limit) ==
  /\ nStarts < limit
  /\ nStarts' = nStarts + 1
  /\ stopped' = FALSE
  /\ updatedRunning' = FALSE
  /\ IF StartGuard
       THEN LET c == nStarts + 1
                merged == Merge(rConfig, custom)
            IN /\ runIdRef' = c
               /\ seqRef' = 0
               /\ config' = merged
               /\ configDirty' = TRUE
               /\ status' = "permission"
               /\ calls' = [calls EXCEPT ![c] =
                              [pc |-> "mic", merged |-> merged, runId |-> c]]
       ELSE UNCHANGED <<metVars, probe, runIdRef, seqRef, config, configDirty, status, calls>>
  /\ UNCHANGED <<metVars, probe, isRunning, rIsRunning, rStatus, rConfig, streamRef, ctxRef,
                 workletNodeRef, scriptNodeRef, floorRef, lastHitRef, resVars,
                 nodeVars, perfNow, delivered, strokes, lastBlock, nBlocks, nLoud,
                 nUpdates>>

\* The catch of start(): console.error and setStatus("error").
StartCatch(c) ==
  /\ status' = "error"
  /\ calls' = [calls EXCEPT ![c].pc = "failed"]

\* The promise start() returned, by where the invocation stands: the async
\* function returns normally when it is through, and just as normally out of
\* its catch block, which does not rethrow.
StartPromise(pc) ==
  IF pc = "none" THEN "none"
  ELSE IF pc \in {"mic", "module"} THEN "pending"
  ELSE "fulfilled"

\* getUserMedia rejects: permission denied, or no input device.
MicDenied(c) ==
  /\ calls[c].pc = "mic"
  /\ StartCatch(c)
  /\ UNCHANGED <<metVars, probe, isRunning, config, configDirty, rIsRunning, rStatus, rConfig,
                 refVars, resVars, nodeVars, perfNow, logVars, cntVars>>

\* getUserMedia resolves and new AudioContext (where = "ctx") or
\* createMediaStreamSource (where = "source") throws.
MicGrantedThrows(c, where) ==
  /\ calls[c].pc = "mic"
  /\ trackLive' = [trackLive EXCEPT ![c] = TRUE]
  /\ IF where = "ctx"
       THEN UNCHANGED <<metVars, probe, ctxState, streamRef, ctxRef>>
       ELSE /\ ctxState' = [ctxState EXCEPT ![c] = "open"]
            /\ streamRef' = c
            /\ ctxRef' = c
  /\ StartCatch(c)
  /\ UNCHANGED <<metVars, probe, isRunning, config, configDirty, rIsRunning, rStatus, rConfig,
                 workletNodeRef, scriptNodeRef, runIdRef, seqRef, floorRef,
                 lastHitRef, ctxTime, nodeVars, perfNow, logVars, cntVars>>

\* getUserMedia resolves; start() runs up to its await of addModule.
MicGranted(c) ==
  /\ calls[c].pc = "mic"
  /\ trackLive' = [trackLive EXCEPT ![c] = TRUE]
  /\ ctxState' = [ctxState EXCEPT ![c] = "open"]
  /\ streamRef' = c
  /\ ctxRef' = c
  /\ calls' = [calls EXCEPT ![c].pc = "module"]
  /\ UNCHANGED <<metVars, probe, hookVars, workletNodeRef, scriptNodeRef, runIdRef, seqRef,
                 floorRef, lastHitRef, ctxTime, nodeVars, perfNow, logVars, cntVars>>

\* The end of a start() that set a path up.
StartSucceeds(c) ==
  /\ isRunning' = TRUE
  /\ status' = "running"
  /\ calls' = [calls EXCEPT ![c].pc = "done"]

\* addModule resolves: the worklet node is made, given its first config
\* message and connected; t0 is the context's currentTime by then.
ModuleResolved(c, t0) ==
  /\ calls[c].pc = "module"
  /\ wk' = [wk EXCEPT ![c] = NewProcessor(c)]
  /\ portOpen' = [portOpen EXCEPT ![c] = TRUE]
  /\ wkIn' = [wkIn EXCEPT ![c] =
                <<[type |-> "config", cfg |-> calls[c].merged,
                   runId |-> calls[c].runId]>>]
  /\ ctxTime' = [ctxTime EXCEPT ![c] = t0]
  /\ workletNodeRef' = c
  /\ StartSucceeds(c)
  /\ UNCHANGED <<metVars, probe, config, configDirty, rIsRunning, rStatus, rConfig, streamRef,
                 ctxRef, scriptNodeRef, runIdRef, seqRef, floorRef, lastHitRef,
                 trackLive, ctxState, wkOut, fb, perfNow, logVars, cntVars>>

\* The worklet is unavailable (addModule rejects or the node cannot be made):
\* the ScriptProcessor fallback is set up, unless createScriptProcessor throws.
ModuleRejected(c, throws) ==
  /\ calls[c].pc = "module"
  /\ IF throws
       THEN /\ StartCatch(c)
            /\ UNCHANGED <<metVars, probe, isRunning, fb, scriptNodeRef>>
       ELSE /\ fb' = [fb EXCEPT ![c] = [exists |-> TRUE, connected |-> TRUE,
                                        pendingMeasure |-> NoPending]]
            /\ scriptNodeRef' = c
            /\ StartSucceeds(c)
  /\ UNCHANGED <<metVars, probe, config, configDirty, rIsRunning, rStatus, rConfig, streamRef,
                 ctxRef, workletNodeRef, runIdRef, seqRef, floorRef, lastHitRef,
                 resVars, wk, wkIn, wkOut, portOpen, perfNow, logVars, cntVars>>

\* What stop() reads and writes.
StopState ==
  [isRunning |-> isRunning, status |-> status, workletNodeRef |-> workletNodeRef,
   scriptNodeRef |-> scriptNodeRef, ctxRef |-> ctxRef, streamRef |-> streamRef,
   portOpen |-> portOpen, fb |-> fb, ctxState |-> ctxState, trackLive |-> trackLive]

\* StopStatus touching status only when the detector was running.
StopStatusIfRunning(st) == IF st.isRunning THEN "idle" ELSE st.status

\* setStatus("idle") of stop().
StopStatus(st) == "idle"

\* stop(), as a function of what it reads: port.close() and disconnect() of the
\* node in workletNodeRef, disconnect() of the one in scriptNodeRef, close() of
\* the context in ctxRef, stop() of the tracks of the stream in streamRef, and
\* the three refs set to null (streamRef is not).
StopOp(st) ==
  [st EXCEPT
     !.isRunning = FALSE,
     !.status = StopStatus(st),
     !.portOpen = IF st.workletNodeRef # 0
                    THEN [@ EXCEPT ![st.workletNodeRef] = FALSE] ELSE @,
     !.fb = IF st.scriptNodeRef # 0
              THEN [@ EXCEPT ![st.scriptNodeRef].connected = FALSE] ELSE @,
     !.ctxState = IF st.ctxRef # 0 THEN [@ EXCEPT ![st.ctxRef] = "closed"] ELSE @,
     !.trackLive = IF st.streamRef # 0 THEN [@ EXCEPT ![st.streamRef] = FALSE] ELSE @,
     !.workletNodeRef = 0,
     !.scriptNodeRef = 0,
     !.ctxRef = 0]

\* stop()
Stop ==
  LET r == StopOp(StopState)
  IN /\ isRunning' = r.isRunning
     /\ status' = r.status
     /\ portOpen' = r.portOpen
     /\ fb' = r.fb
     /\ ctxState' = r.ctxState
     /\ trackLive' = r.trackLive
     /\ workletNodeRef' = r.workletNodeRef
     /\ scriptNodeRef' = r.scriptNodeRef
     /\ ctxRef' = r.ctxRef
     /\ streamRef' = r.streamRef
     /\ stopped' = TRUE
     /\ updatedRunning' = FALSE
     /\ UNCHANGED <<metVars, probe, config, configDirty, rIsRunning, rStatus, rConfig, runIdRef,
                    seqRef, floorRef, lastHitRef, calls, ctxTime, wk, wkIn, wkOut,
                    perfNow, delivered, strokes, lastBlock, cntVars>>

\* ------------------------------------------------------- the audio paths
\* The processor receives a config message.
DeliverConfig(c) ==
  /\ wk[c].exists
  /\ wkIn[c] # <<>>
  /\ wk' = [wk EXCEPT ![c] = OnConfig(@, Head(wkIn[c]))]
  /\ wkIn' = [wkIn EXCEPT ![c] = Tail(@)]
  /\ UNCHANGED <<metVars, probe, hookVars, refVars, calls, resVars, wkOut, portOpen, fb, perfNow,
                 logVars, cntVars>>

\* The blocks that count against MaxLoud.
IsLoud(amp) == amp >= 100

\* What a node of call c gets of a block of magnitude amp: silence once the
\* track is stopped.
Heard(c, amp) == IF trackLive[c] THEN amp ELSE 0

\* The node of call c is the one the hook holds.
ActiveNode(c) == workletNodeRef = c \/ scriptNodeRef = c

\* What is recorded of a block processed by call c's node with sensitivity sens:
\* whether an updateConfig() made while running had reached the node by then.
BlockRecord(c, sens) ==
  [call |-> c, sens |-> sens, want |-> config.sensitivity,
   afterUpdate |-> /\ updatedRunning /\ ActiveNode(c) /\ ~configDirty
                   /\ wkIn[c] = <<>> /\ rConfig = config]

\* One render quantum of call c's context through its processor.
WorkletBlock(c, amp, tel, limit) ==
  /\ wk[c].exists
  /\ ctxState[c] = "open"
  /\ nBlocks < limit
  /\ IsLoud(amp) => nLoud < MaxLoud
  /\ nLoud' = IF IsLoud(amp) THEN nLoud + 1 ELSE nLoud
  /\ LET r == WorkletProcess(wk[c], Heard(c, amp), QuantumFrames, ctxTime[c], tel)
     IN /\ wk' = [wk EXCEPT ![c] = r.p]
        /\ wkOut' = [wkOut EXCEPT ![c] = @ \o r.out]
        /\ strokes' = IF r.hit
                        THEN Append(strokes, [call |-> c, at |-> ctxTime[c],
                                              debounceMs |-> wk[c].debounceMs])
                        ELSE strokes
  /\ ctxTime' = [ctxTime EXCEPT ![c] = @ + QuantumTime]
  /\ lastBlock' = BlockRecord(c, wk[c].sensitivity)
  /\ nBlocks' = nBlocks + 1
  /\ UNCHANGED <<metVars, probe, hookVars, refVars, calls, trackLive, ctxState, wkIn, portOpen, fb,
                 perfNow, delivered, stopped, updatedRunning, nStarts, nUpdates>>

\* What node.port.onmessage hands to the consumer for a message of the processor.
ToConsumer(data) ==
  IF data.type = "stroke"
    THEN [kind |-> "stroke", seq |-> data.seq,
          runId |-> IF data.runId # 0 THEN data.runId ELSE runIdRef,
          at |-> perfNow, db |-> data.db, thresholdDb |-> data.thresholdDb,
          floorDb |-> data.floorDb]
  ELSE IF data.type = "stroke-measure"
    THEN [kind |-> "measure", seq |-> data.seq,
          runId |-> IF data.runId # 0 THEN data.runId ELSE runIdRef,
          at |-> 0, db |-> data.db, thresholdDb |-> 0, floorDb |-> 0]
  ELSE [kind |-> "telemetry", seq |-> 0, runId |-> 0, at |-> 0, db |-> data.db,
        thresholdDb |-> data.thresholdDb, floorDb |-> data.floorDb]

\* node.port.onmessage on the main thread, for the oldest message of call c's
\* processor; a closed port delivers nothing.
DeliverToMain(c) ==
  /\ portOpen[c]
  /\ wkOut[c] # <<>>
  /\ LET data == Head(wkOut[c])
     IN /\ delivered' = Append(delivered, ToConsumer(data))
        /\ lastHitRef' = IF data.type = "stroke" THEN perfNow ELSE lastHitRef
  /\ wkOut' = [wkOut EXCEPT ![c] = Tail(@)]
  /\ UNCHANGED <<metVars, probe, hookVars, streamRef, ctxRef, workletNodeRef, scriptNodeRef,
                 runIdRef, seqRef, floorRef, calls, resVars, wk, wkIn, portOpen, fb,
                 perfNow, strokes, lastBlock, stopped, updatedRunning, cntVars>>

\* What the fallback hands to the consumer.
FromFallback(data) ==
  IF data.type = "stroke"
    THEN [kind |-> "stroke", seq |-> data.seq, runId |-> data.runId,
          at |-> data.at, db |-> data.db, thresholdDb |-> data.thresholdDb,
          floorDb |-> data.floorDb]
  ELSE IF data.type = "stroke-measure"
    THEN [kind |-> "measure", seq |-> data.seq, runId |-> data.runId,
          at |-> 0, db |-> data.db, thresholdDb |-> 0, floorDb |-> 0]
  ELSE [kind |-> "telemetry", seq |-> 0, runId |-> 0, at |-> 0, db |-> data.db,
        thresholdDb |-> data.thresholdDb, floorDb |-> data.floorDb]

\* onaudioprocess of call c's ScriptProcessor, dt after the previous callback.
FallbackBlock(c, amp, dt, limit) ==
  /\ fb[c].exists /\ fb[c].connected
  /\ ctxState[c] = "open"
  /\ nBlocks < limit
  /\ IsLoud(amp) => nLoud < MaxLoud
  /\ nLoud' = IF IsLoud(amp) THEN nLoud + 1 ELSE nLoud
  /\ perfNow' = perfNow + dt
  /\ LET r == FallbackProcess(calls[c].merged, calls[c].runId, fb[c].pendingMeasure,
                              floorRef, lastHitRef, seqRef, Heard(c, amp), ScriptFrames,
                              perfNow + dt)
     IN /\ floorRef' = r.floor
        /\ lastHitRef' = r.lastHit
        /\ seqRef' = r.seqNo
        /\ fb' = [fb EXCEPT ![c].pendingMeasure = r.pending]
        /\ delivered' = delivered \o [i \in 1 .. Len(r.out) |-> FromFallback(r.out[i])]
        /\ strokes' = IF r.hit
                        THEN Append(strokes, [call |-> c, at |-> perfNow + dt,
                                              debounceMs |-> calls[c].merged.debounceMs])
                        ELSE strokes
  /\ lastBlock' = BlockRecord(c, calls[c].merged.sensitivity)
  /\ nBlocks' = nBlocks + 1
  /\ UNCHANGED <<metVars, probe, hookVars, streamRef, ctxRef, workletNodeRef, scriptNodeRef,
                 runIdRef, calls, resVars, wk, wkIn, wkOut, portOpen, stopped,
                 updatedRunning, nStarts, nUpdates>>

\* ---------------------------------------------------- the specifications
\* The inputs of the lifecycle specifications: loud blocks, one callback period.
LifeAmplitudes == {400}
LifePerfSteps == {64}

\* The lifecycle of the hook: start(), stop(), the microphone request and the
\* module load in every order, renders, and the blocks of whatever path is up.
Next ==
  \/ \E custom \in CustomConfigs : StartCall(custom, MaxStarts)
  \/ \E c \in Calls : MicDenied(c)
  \/ \E c \in Calls, where \in {"ctx", "source"} : MicGrantedThrows(c, where)
  \/ \E c \in Calls : MicGranted(c)
  \/ \E c \in Calls, t0 \in StartTimes : ModuleResolved(c, t0)
  \/ \E c \in Calls, throws \in BOOLEAN : ModuleRejected(c, throws)
  \/ Stop
  \/ Render
  \/ \E c \in Calls : DeliverConfig(c)
  \/ \E c \in Calls, amp \in LifeAmplitudes, tel \in BOOLEAN :
       WorkletBlock(c, amp, tel, MaxBlocks)
  \/ \E c \in Calls : DeliverToMain(c)
  \/ \E c \in Calls, amp \in LifeAmplitudes, dt \in LifePerfSteps :
       FallbackBlock(c, amp, dt, MaxBlocks)

Spec == Init /\ [][Next]_vars

\* One start() and updateConfig() while it runs: the way of a config update to
\* the path that is up.
NextConfig ==
  \/ StartCall(<<>>, 1)
  \/ MicGranted(1)
  \/ \E t0 \in StartTimes : ModuleResolved(1, t0)
  \/ ModuleRejected(1, FALSE)
  \/ \E next \in ConfigUpdates : UpdateConfig(next)
  \/ Render
  \/ DeliverConfig(1)
  \/ \E amp \in LifeAmplitudes : WorkletBlock(1, amp, FALSE, MaxCfgBlocks)
  \/ DeliverToMain(1)
  \/ \E amp \in LifeAmplitudes, dt \in LifePerfSteps :
       FallbackBlock(1, amp, dt, MaxCfgBlocks)

SpecConfig == Init /\ [][NextConfig]_vars

\* One detection run that start(custom) has set up on the given path, rendered:
\* on the worklet path the first config message is still on its way.
RunConfigs ==
  { Merge(defaultConfig, custom) :
      custom \in { <<>>, [debounceMs |-> 5, measureWindowMs |-> 10] } }

InitRun ==
  \E path \in {"worklet", "fallback"}, cfg \in RunConfigs, t0 \in StartTimes :
    /\ isRunning = TRUE /\ status = "running" /\ config = cfg
    /\ configDirty = FALSE
    /\ rIsRunning = TRUE /\ rStatus = "running" /\ rConfig = cfg
    /\ streamRef = 1 /\ ctxRef = 1
    /\ workletNodeRef = (IF path = "worklet" THEN 1 ELSE 0)
    /\ scriptNodeRef = (IF path = "fallback" THEN 1 ELSE 0)
    /\ runIdRef = 1 /\ seqRef = 0 /\ floorRef = 0 /\ lastHitRef = 0
    /\ calls = [c \in Calls |->
                  IF c = 1 THEN [pc |-> "done", merged |-> cfg, runId |-> 1]
                  ELSE NoCall]
    /\ trackLive = [c \in Calls |-> c = 1]
    /\ ctxState = [c \in Calls |-> IF c = 1 THEN "open" ELSE "none"]
    /\ ctxTime = [c \in Calls |-> IF c = 1 /\ path = "worklet" THEN t0 ELSE 0]
    /\ wk = [c \in Calls |->
               IF c = 1 /\ path = "worklet" THEN NewProcessor(1) ELSE NoProcessor]
    /\ wkIn = [c \in Calls |->
                 IF c = 1 /\ path = "worklet"
                   THEN <<[type |-> "config", cfg |-> cfg, runId |-> 1]>>
                   ELSE <<>>]
    /\ wkOut = [c \in Calls |-> <<>>]
    /\ portOpen = [c \in Calls |-> c = 1 /\ path = "worklet"]
    /\ fb = [c \in Calls |->
               [exists |-> c = 1 /\ path = "fallback",
                connected |-> c = 1 /\ path = "fallback",
                pendingMeasure |-> NoPending]]
    /\ perfNow = PerfStart
    /\ delivered = <<>> /\ strokes = <<>> /\ lastBlock = NoBlock
    /\ stopped = FALSE /\ updatedRunning = FALSE
    /\ nStarts = 1 /\ nBlocks = 0 /\ nLoud = 0 /\ nUpdates = 0
    /\ MetInit /\ probe = NoProbe

NextRun ==
  \/ DeliverConfig(1)
  \/ \E amp \in Amplitudes : WorkletBlock(1, amp, FALSE, MaxRunBlocks)
  \/ DeliverToMain(1)
  \/ \E amp \in Amplitudes, dt \in PerfSteps :
       FallbackBlock(1, amp, dt, MaxFallbackRunBlocks)

SpecRun == InitRun /\ [][NextRun]_vars

\* The two paths side by side: the processor of call 1 with its config message
\* handled, and the onaudioprocess closure of call 2 made with the same
\* config, both from their state at construction.
DualConfigs ==
  { defaultConfig,
    [defaultConfig EXCEPT !.sensitivity = 10, !.debounceMs = 5],
    [defaultConfig EXCEPT !.sensitivity = 40, !.minDb = -400, !.alpha = 100] }

DualAmplitudes == {0, 2, 400}
DualSteps == {8, 64}

InitDual ==
  \E cfg \in DualConfigs :
    /\ isRunning = TRUE /\ status = "running" /\ config = cfg
    /\ configDirty = FALSE
    /\ rIsRunning = TRUE /\ rStatus = "running" /\ rConfig = cfg
    /\ streamRef = 2 /\ ctxRef = 2 /\ workletNodeRef = 0 /\ scriptNodeRef = 2
    /\ runIdRef = 2 /\ seqRef = 0 /\ floorRef = 0 /\ lastHitRef = 0
    /\ calls = [c \in Calls |-> [pc |-> "done", merged |-> cfg, runId |-> c]]
    /\ trackLive = [c \in Calls |-> TRUE]
    /\ ctxState = [c \in Calls |-> "open"]
    /\ ctxTime = [c \in Calls |-> IF c = 1 THEN PerfStart ELSE 0]
    /\ wk = [c \in Calls |->
               IF c = 1
                 THEN OnConfig(NewProcessor(1),
                               [type |-> "config", cfg |-> cfg, runId |-> 1])
                 ELSE NoProcessor]
    /\ wkIn = [c \in Calls |-> <<>>]
    /\ wkOut = [c \in Calls |-> <<>>]
    /\ portOpen = [c \in Calls |-> c = 1]
    /\ fb = [c \in Calls |-> [exists |-> c = 2, connected |-> c = 2,
                              pendingMeasure |-> NoPending]]
    /\ perfNow = PerfStart
    /\ delivered = <<>> /\ strokes = <<>> /\ lastBlock = NoBlock
    /\ stopped = FALSE /\ updatedRunning = FALSE
    /\ nStarts = 2 /\ nBlocks = 0 /\ nLoud = 0 /\ nUpdates = 0
    /\ MetInit /\ probe = NoProbe

\* The same block of len samples of magnitude amp, dt after the one before, to
\* process() of call 1 and to onaudioprocess of call 2, both clocks reading
\* the same time; the processor's telemetry is posted for every block.
DualBlock(amp, len, dt) ==
  /\ nBlocks < MaxDualBlocks
  /\ nBlocks' = nBlocks + 1
  /\ perfNow' = perfNow + dt
  /\ ctxTime' = [ctxTime EXCEPT ![1] = perfNow + dt]
  /\ LET w == WorkletProcess(wk[1], amp, len, perfNow + dt, TRUE)
         f == FallbackProcess(calls[2].merged, calls[2].runId, fb[2].pendingMeasure,
                              floorRef, lastHitRef, seqRef, amp, len, perfNow + dt)
     IN /\ wk' = [wk EXCEPT ![1] = w.p]
        /\ wkOut' = [wkOut EXCEPT ![1] = @ \o w.out]
        /\ floorRef' = f.floor
        /\ lastHitRef' = f.lastHit
        /\ seqRef' = f.seqNo
        /\ fb' = [fb EXCEPT ![2].pendingMeasure = f.pending]
        /\ delivered' = delivered \o [i \in 1 .. Len(f.out) |-> FromFallback(f.out[i])]
  /\ UNCHANGED <<metVars, probe, hookVars, streamRef, ctxRef, workletNodeRef, scriptNodeRef,
                 runIdRef, calls, trackLive, ctxState, wkIn, portOpen, strokes,
                 lastBlock, stopped, updatedRunning, nStarts, nLoud, nUpdates>>

NextDual ==
  \E amp \in DualAmplitudes, len \in {QuantumFrames, ScriptFrames}, dt \in DualSteps :
    DualBlock(amp, len, dt)

SpecDual == InitDual /\ [][NextDual]_vars

\* The metronome under start(), stop(), the setters, renders, animation
\* frames and the audio clock in every order.
NextMetro ==
  \/ MetStartCall
  \/ \E k \in MetCalls, settled \in {"resolved", "rejected"} :
       MetResumed(k, settled)
  \/ \E id \in RafIds : MetFrame(id)
  \/ \E dt \in MetSteps : MetTick(dt)
  \/ MetStop
  \/ MetRender
  \/ \E t \in Tempos : MetSetConfig("tempo", t)
  \/ \E sub \in Subdivisions : MetSetConfig("subdivision", sub)
  \/ \E v \in Volumes : MetSetConfig("volume", v)

SpecMetro == Init /\ [][NextMetro]_vars

\* One block of len samples of magnitude amp, dt after the one before, to
\* process() of call 1 and to onaudioprocess of call 2, as in DualBlock; the
\* counters are left to the caller.
FeedBoth(amp, len, dt) ==
  /\ perfNow' = perfNow + dt
  /\ ctxTime' = [ctxTime EXCEPT ![1] = perfNow + dt]
  /\ LET w == WorkletProcess(wk[1], amp, len, perfNow + dt, TRUE)
         f == FallbackProcess(calls[2].merged, calls[2].runId, fb[2].pendingMeasure,
                              floorRef, lastHitRef, seqRef, amp, len, perfNow + dt)
     IN /\ wk' = [wk EXCEPT ![1] = w.p]
        /\ wkOut' = [wkOut EXCEPT ![1] = @ \o w.out]
        /\ floorRef' = f.floor
        /\ lastHitRef' = f.lastHit
        /\ seqRef' = f.seqNo
        /\ fb' = [fb EXCEPT ![2].pendingMeasure = f.pending]
        /\ delivered' = delivered \o [i \in 1 .. Len(f.out) |-> FromFallback(f.out[i])]
  /\ UNCHANGED <<metVars, probe, hookVars, streamRef, ctxRef, workletNodeRef, scriptNodeRef,
                 runIdRef, calls, trackLive, ctxState, wkIn, portOpen, strokes,
                 lastBlock, stopped, updatedRunning, nStarts, nUpdates>>

\* The debounce scenario under defaultConfig: blocks of silence or of noise at
\* minDb for the floor to settle on, then the same loud block three times, the
\* second 5 ms after the first and the third 45 or 50 ms after the second.
SilentAmplitudes == {0, 1}
StrokeAmplitude == 400
SecondGap == 15
ThirdGaps == {135, 150}

InitScenario == InitDual /\ config = defaultConfig

SettleBlock(amp, len, dt) ==
  /\ nLoud = 0
  /\ nBlocks < MaxSettle
  /\ nBlocks' = nBlocks + 1
  /\ UNCHANGED nLoud
  /\ FeedBoth(amp, len, dt)

StrokeBlock(len, dt) ==
  /\ nLoud < 3
  /\ nLoud = 1 => dt = SecondGap
  /\ nLoud = 2 => dt \in ThirdGaps
  /\ nLoud \notin {1, 2} => dt \in DualSteps
  /\ nLoud' = nLoud + 1
  /\ UNCHANGED nBlocks
  /\ FeedBoth(StrokeAmplitude, len, dt)

NextScenario ==
  \/ \E amp \in SilentAmplitudes, len \in {QuantumFrames, ScriptFrames},
        dt \in DualSteps : SettleBlock(amp, len, dt)
  \/ \E len \in {QuantumFrames, ScriptFrames},
        dt \in DualSteps \cup {SecondGap} \cup ThirdGaps : StrokeBlock(len, dt)

SpecScenario == InitScenario /\ [][NextScenario]_vars

\* The threshold by itself: for a floor, a minDb and two sensitivities, what
\* both paths compute as thresholdDb.
ProbeFloors == {0, 1000, 10000, 100000, 400000}
ProbeMinDbs == {-600, -550, -300}
ProbeSensitivities == {10, 13, 15, 20, 40}

ProbeThreshold(floor, minDb, s1, s2) ==
  /\ s1 < s2
  /\ probe' = [op |-> "threshold", floor |-> floor, minDb |-> minDb,
               s1 |-> s1, s2 |-> s2,
               worklet1 |-> WorkletThreshold(ToDb(floor), s1, minDb),
               worklet2 |-> WorkletThreshold(ToDb(floor), s2, minDb),
               fallback1 |-> FallbackThreshold(ToDb(floor), s1, minDb),
               fallback2 |-> FallbackThreshold(ToDb(floor), s2, minDb)]
  /\ UNCHANGED <<metVars, hookVars, refVars, calls, resVars, nodeVars, perfNow,
                 logVars, cntVars>>

NextThreshold ==
  \E floor \in ProbeFloors, minDb \in ProbeMinDbs, s1, s2 \in ProbeSensitivities :
    ProbeThreshold(floor, minDb, s1, s2)

SpecThreshold == Init /\ [][NextThreshold]_vars

\* Two processors that differ in sensitivity alone, call 1 the lower and call
\* 2 the higher, both with their config message handled, fed the same blocks
\* at the same times.
MonoConfigs ==
  { [defaultConfig EXCEPT !.alpha = 5],
    [defaultConfig EXCEPT !.debounceMs = 5] }
MonoAmplitudes == {2, 40, 400}
MonoSteps == {8, 40}

InitMono ==
  \E cfg \in MonoConfigs, s1, s2 \in ProbeSensitivities :
    /\ s1 < s2
    /\ isRunning = TRUE /\ status = "running" /\ config = cfg
    /\ configDirty = FALSE
    /\ rIsRunning = TRUE /\ rStatus = "running" /\ rConfig = cfg
    /\ streamRef = 2 /\ ctxRef = 2 /\ workletNodeRef = 2 /\ scriptNodeRef = 0
    /\ runIdRef = 2 /\ seqRef = 0 /\ floorRef = 0 /\ lastHitRef = 0
    /\ calls = [c \in Calls |-> [pc |-> "done", merged |-> cfg, runId |-> c]]
    /\ trackLive = [c \in Calls |-> TRUE]
    /\ ctxState = [c \in Calls |-> "open"]
    /\ ctxTime = [c \in Calls |-> PerfStart]
    /\ wk = [c \in Calls |->
               OnConfig(NewProcessor(c),
                        [type |-> "config",
                         cfg |-> [cfg EXCEPT !.sensitivity = IF c = 1 THEN s1 ELSE s2],
                         runId |-> c])]
    /\ wkIn = [c \in Calls |-> <<>>]
    /\ wkOut = [c \in Calls |-> <<>>]
    /\ portOpen = [c \in Calls |-> TRUE]
    /\ fb = [c \in Calls |-> [exists |-> FALSE, connected |-> FALSE,
                              pendingMeasure |-> NoPending]]
    /\ perfNow = PerfStart
    /\ delivered = <<>> /\ strokes = <<>> /\ lastBlock = NoBlock
    /\ stopped = FALSE /\ updatedRunning = FALSE
    /\ nStarts = 2 /\ nBlocks = 0 /\ nLoud = 0 /\ nUpdates = 0
    /\ MetInit /\ probe = NoProbe

\* The same render quantum of magnitude amp, dt after the one before, through
\* both processors.
MonoBlock(amp, dt) ==
  /\ nBlocks < MaxMonoBlocks
  /\ nBlocks' = nBlocks + 1
  /\ ctxTime' = [c \in Calls |-> ctxTime[c] + dt]
  /\ LET r == [c \in Calls |->
                 WorkletProcess(wk[c], amp, QuantumFrames, ctxTime[c] + dt, FALSE)]
     IN /\ wk' = [c \in Calls |-> r[c].p]
        /\ wkOut' = [c \in Calls |-> wkOut[c] \o r[c].out]
  /\ UNCHANGED <<metVars, probe, hookVars, refVars, calls, trackLive, ctxState, wkIn,
                 portOpen, fb, perfNow, logVars, nStarts, nLoud, nUpdates>>

NextMono == \E amp \in MonoAmplitudes, dt \in MonoSteps : MonoBlock(amp, dt)

SpecMono == InitMono /\ [][NextMono]_vars

\* The floor by itself under blocks of one rms. The update of line 84 is
\* followed twice: in the micro units of the two paths (WorkletFloor,
\* FallbackFloor), and as the exact fraction num / den of a milli full scale,
\* where each block multiplies den by 100 (alpha is in hundredths).
FloorAlphas == {5, 10, 50, 100}
FloorLevels == {0, 1, 5, 20}

\* ExactFloor with the two weights exchanged.
ExactFloorSwapped(alpha, rms, x) ==
  [num |-> (100 - alpha) * rms * x.den + alpha * x.num, den |-> 100 * x.den]

\* energySMA = alpha * rms + (1 - alpha) * energySMA, without rounding.
ExactFloor(alpha, rms, x) ==
  [num |-> alpha * rms * x.den + (100 - alpha) * x.num, den |-> 100 * x.den]

ProbeFloorStart(alpha, r, f0) ==
  /\ probe' = [op |-> "floor", alpha |-> alpha, r |-> r, n |-> 0,
               exact |-> [num |-> f0, den |-> 1],
               prevExact |-> [num |-> f0, den |-> 1],
               worklet |-> 1000 * f0, prevWorklet |-> 1000 * f0,
               fallback |-> 1000 * f0, prevFallback |-> 1000 * f0]
  /\ UNCHANGED <<metVars, hookVars, refVars, calls, resVars, nodeVars, perfNow,
                 logVars, cntVars>>

ProbeFloorBlock ==
  /\ probe.op = "floor"
  /\ probe.n < MaxFloorBlocks
  /\ probe' = [probe EXCEPT
       !.n = @ + 1,
       !.prevExact = probe.exact,
       !.exact = ExactFloor(probe.alpha, probe.r, probe.exact),
       !.prevWorklet = probe.worklet,
       !.worklet = WorkletFloor(probe.alpha, 1000 * probe.r, probe.worklet),
       !.prevFallback = probe.fallback,
       !.fallback = FallbackFloor(probe.alpha, 1000 * probe.r, probe.fallback)]
  /\ UNCHANGED <<metVars, hookVars, refVars, calls, resVars, nodeVars, perfNow,
                 logVars, cntVars>>

NextFloor ==
  \/ \E alpha \in FloorAlphas, r, f0 \in FloorLevels : ProbeFloorStart(alpha, r, f0)
  \/ ProbeFloorBlock

SpecFloor == Init /\ [][NextFloor]_vars

\* Config messages by themselves: a processor that has processed blocks gets
\* a message carrying some of the fields, or none, or one of another type;
\* probe keeps the processor before and after the handler.
PartialInitConfig == [defaultConfig EXCEPT !.debounceMs = 5]
PartialAmplitudes == {2, 400}
PartialStep == 40
PartialMessages ==
  { [type |-> "config", cfg |-> <<>>, runId |-> 0],
    [type |-> "config", cfg |-> [sensitivity |-> 20], runId |-> 0],
    [type |-> "config", cfg |-> [debounceMs |-> 35], runId |-> 0],
    [type |-> "config", cfg |-> [minDb |-> -300], runId |-> 0],
    [type |-> "config", cfg |-> [alpha |-> 50], runId |-> 0],
    [type |-> "config", cfg |-> [measureWindowMs |-> 10], runId |-> 0],
    [type |-> "config", cfg |-> [sensitivity |-> 40, alpha |-> 5], runId |-> 7],
    [type |-> "config", cfg |-> <<>>, runId |-> 7],
    [type |-> "config", cfg |-> [defaultConfig EXCEPT !.minDb = -550], runId |-> 0],
    [type |-> "other", cfg |-> [sensitivity |-> 20], runId |-> 7] }

InitPartial ==
  /\ InitMono
  /\ config = PartialInitConfig
  /\ wk[1].sensitivity = 13 /\ wk[2].sensitivity = 15

PartialBlock(amp) ==
  /\ nBlocks < MaxPartialBlocks
  /\ nBlocks' = nBlocks + 1
  /\ ctxTime' = [c \in Calls |-> ctxTime[c] + PartialStep]
  /\ LET r == [c \in Calls |->
                 WorkletProcess(wk[c], amp, QuantumFrames, ctxTime[c] + PartialStep, FALSE)]
     IN /\ wk' = [c \in Calls |-> r[c].p]
        /\ wkOut' = [c \in Calls |-> wkOut[c] \o r[c].out]
  /\ UNCHANGED <<metVars, probe, hookVars, refVars, calls, trackLive, ctxState, wkIn,
                 portOpen, fb, perfNow, logVars, nStarts, nLoud, nUpdates>>

\* port.onmessage of call c's processor with the message data.
ConfigMessage(c, data) ==
  /\ nUpdates < MaxMessages
  /\ nUpdates' = nUpdates + 1
  /\ wk' = [wk EXCEPT ![c] = OnConfig(@, data)]
  /\ probe' = [op |-> "config", call |-> c, data |-> data, before |-> wk[c],
               after |-> OnConfig(wk[c], data)]
  /\ UNCHANGED <<metVars, hookVars, refVars, calls, trackLive, ctxState, ctxTime, wkIn,
                 wkOut, portOpen, fb, perfNow, logVars, nStarts, nBlocks, nLoud>>

NextPartial ==
  \/ \E amp \in PartialAmplitudes : PartialBlock(amp)
  \/ \E c \in Calls, data \in PartialMessages : ConfigMessage(c, data)

SpecPartial == InitPartial /\ [][NextPartial]_vars

\* The lifecycle with several blocks per path: start(), stop(), the microphone
\* request granted and the module load in every order, renders, and up to
\* MaxSeqBlocks loud blocks through whatever paths are up.
NextSeq ==
  \/ StartCall(<<>>, MaxStarts)
  \/ \E c \in Calls : MicGranted(c)
  \/ \E c \in Calls, t0 \in StartTimes : ModuleResolved(c, t0)
  \/ \E c \in Calls : ModuleRejected(c, FALSE)
  \/ Stop
  \/ Render
  \/ \E c \in Calls : DeliverConfig(c)
  \/ \E c \in Calls, amp \in LifeAmplitudes : WorkletBlock(c, amp, FALSE, MaxSeqBlocks)
  \/ \E c \in Calls : DeliverToMain(c)
  \/ \E c \in Calls, amp \in LifeAmplitudes, dt \in LifePerfSteps :
       FallbackBlock(c, amp, dt, MaxSeqBlocks)

SpecSeq == Init /\ [][NextSeq]_vars

\* Empty blocks among the blocks of a run: a render quantum for which the
\* node has no input channel, or a channel of no samples.
EmptyInputs == { [channels |-> 0, len |-> 0], [channels |-> 1, len |-> 0] }

EmptyBlock(c, in, tel) ==
  /\ nLoud < MaxEmptyBlocks
  /\ nLoud' = nLoud + 1
  /\ ctxTime' = [ctxTime EXCEPT ![c] = @ + QuantumTime]
  /\ LET r == Process(wk[c], in.channels, 0, in.len, ctxTime[c] + QuantumTime, tel)
     IN /\ wk' = [wk EXCEPT ![c] = r.p]
        /\ wkOut' = [wkOut EXCEPT ![c] = @ \o r.out]
        /\ probe' = [op |-> "empty", call |-> c, in |-> in, before |-> wk[c],
                     after |-> r.p, out |-> r.out]
  /\ UNCHANGED <<metVars, hookVars, refVars, calls, trackLive, ctxState, wkIn,
                 portOpen, fb, perfNow, logVars, nStarts, nBlocks, nUpdates>>

NextEmpty ==
  \/ \E amp \in PartialAmplitudes : PartialBlock(amp)
  \/ \E c \in Calls, in \in EmptyInputs, tel \in BOOLEAN : EmptyBlock(c, in, tel)

SpecEmpty == InitPartial /\ [][NextEmpty]_vars

\* ------------------------------------------------------------ the claims
\* C1: no two strokes that one run emits are closer together on the clock that
\* decided them (currentTime on the worklet path, performance.now() on the
\* fallback) than the debounceMs the later one was accepted under; with a
\* fixed config that is the run's debounceMs.
C1_Debounce ==
  \A i, j \in 1 .. Len(strokes) :
    (i < j /\ strokes[i].call = strokes[j].call)
      => strokes[j].at - strokes[i].at > 3 * strokes[j].debounceMs

\* A run has emitted two strokes two blocks apart: the loud block between them
\* was held back.
C1_Witness ==
  \E i \in 1 .. Len(strokes) - 1 :
    /\ strokes[i].call = strokes[i + 1].call
    /\ strokes[i].debounceMs = strokes[i + 1].debounceMs
    /\ nLoud = 3 /\ nBlocks = 3

\* C2: every StrokeMeasurement delivered to the consumer carries the
\* sequenceId of exactly one StrokeEvent delivered earlier with the same
\* runId, and no sequenceId of a run receives two StrokeMeasurements.
C2_Correlated ==
  \A j \in 1 .. Len(delivered) :
    delivered[j].kind = "measure" =>
      /\ Cardinality({ i \in 1 .. j - 1 :
                         /\ delivered[i].kind = "stroke"
                         /\ delivered[i].seq = delivered[j].seq
                         /\ delivered[i].runId = delivered[j].runId }) = 1
      /\ \A k \in 1 .. j - 1 :
           ~ /\ delivered[k].kind = "measure"
             /\ delivered[k].seq = delivered[j].seq
             /\ delivered[k].runId = delivered[j].runId

\* C3: once an updateConfig() made while the detector runs has been rendered
\* and nothing of it is still on its way to the node, the next block the
\* active path processes uses the updated sensitivity, on the worklet path and
\* on the fallback path alike.
C3_LiveUpdate == lastBlock.afterUpdate => lastBlock.sens = lastBlock.want

\* What the worklet path reports of its blocks, in order: for every block its
\* thresholdDb and floorDb, and before them the block's stroke if it was
\* accepted as an onset.
WorkletReports ==
  LET out == SelectSeq(wkOut[1], LAMBDA m : m.type \in {"stroke", "telemetry"})
  IN [i \in 1 .. Len(out) |->
        <<out[i].type, IF out[i].type = "stroke" THEN out[i].seq ELSE 0,
          out[i].thresholdDb, out[i].floorDb>>]

\* The same of the fallback path.
FallbackReports ==
  LET out == SelectSeq(delivered, LAMBDA m : m.kind \in {"stroke", "telemetry"})
  IN [i \in 1 .. Len(out) |->
        <<out[i].kind, out[i].seq, out[i].thresholdDb, out[i].floorDb>>]

\* C4: fed the same blocks at the same times under the same config (sensitivity
\* at least 1) from the same initial state, the worklet path and the fallback
\* path accept the same blocks as onsets and report the same thresholdDb and
\* floorDb for every block.
C4_DualPath ==
  /\ WorkletReports = FallbackReports
  /\ wk[1].energySMA = floorRef
  /\ wk[1].lastHitTime = lastHitRef
  /\ wk[1].hitSeq = seqRef

\* Both paths have accepted two onsets and turned other blocks down.
C4_Witness ==
  /\ nBlocks = MaxDualBlocks
  /\ seqRef = 2 /\ wk[1].hitSeq = 2
  /\ \E i \in 1 .. Len(delivered) : delivered[i].kind = "stroke"

\* C5: under every interleaving of start(), stop() and the outcome of the
\* microphone request, status changes only along idle->permission,
\* permission->running, permission->error and running->idle.
C5_Transitions ==
  [][status' # status =>
       <<status, status'>> \in { <<"idle", "permission">>, <<"permission", "running">>,
                                 <<"permission", "error">>, <<"running", "idle">> }]_vars

\* C6: from the return of stop() until start() is called again nothing is
\* delivered to the consumer, no processing path is established and status
\* stays idle, also when stop() came while start() was waiting for the
\* microphone.
C6_QuietAfterStop ==
  [][(stopped /\ stopped') =>
       /\ delivered' = delivered
       /\ status' = "idle"
       /\ workletNodeRef' = 0 /\ scriptNodeRef' = 0]_vars

\* C7: a start() that failed leaves no microphone track of its own live and no
\* AudioContext of its own open, and after stop(), once no start() is still
\* under way, no track is live and no context is open at all.
C7_Released ==
  /\ \A c \in Calls :
       calls[c].pc = "failed" => ~trackLive[c] /\ ctxState[c] # "open"
  /\ (stopped /\ \A c \in Calls : calls[c].pc \in {"none", "done", "failed"})
       => \A c \in Calls : ~trackLive[c] /\ ctxState[c] # "open"

\* C8: from any state stop() leaves status idle and isRunning false, and a
\* second stop() right after it changes nothing of what the first one left.
C8_IdempotentStop ==
  LET once == StopOp(StopState)
  IN /\ once.status = "idle"
     /\ ~once.isRunning
     /\ StopOp(once) = once

\* stop() has torn a running path down: its context is closed, its track
\* stopped, and stop() again would leave all of that as it is.
C8_Witness ==
  /\ stopped /\ status = "idle" /\ ~isRunning
  /\ \E c \in Calls : ctxState[c] = "closed" /\ ~trackLive[c] /\ calls[c].pc = "done"
  /\ StopOp(StopState) = StopState

\* C9: a start() call made while status is running requests no microphone
\* stream, creates no context or node, and leaves status, the run identifier,
\* the sequence counter and the config unchanged.
C9_StartWhileRunning ==
  [][(status = "running" /\ nStarts' # nStarts) =>
       UNCHANGED <<status, isRunning, runIdRef, seqRef, config, calls, resVars,
                   nodeVars, streamRef, ctxRef, workletNodeRef, scriptNodeRef>>]_vars

\* C10: when the microphone request of a start() is turned down, status
\* becomes error with isRunning false and no processing path established, and
\* no stroke is delivered while status is error.
C10_StartFailure ==
  [][/\ \A c \in Calls :
          (calls[c].pc = "mic" /\ calls'[c].pc = "failed") =>
             /\ status' = "error" /\ ~isRunning'
             /\ workletNodeRef' = 0 /\ scriptNodeRef' = 0
     /\ (status = "error" /\ status' = "error") => delivered' = delivered]_vars

\* C11: when the microphone request of a start() is rejected (access denied,
\* or no input device), the promise that start() returned is rejected.
C11_PromiseRejects ==
  [][\A c \in Calls :
       (calls[c].pc = "mic" /\ calls'[c].pc = "failed" /\ ~trackLive'[c])
         => StartPromise(calls'[c].pc) = "rejected"]_vars

\* C12: as long as the clicks of a run were all made under the same tempo and
\* subdivision, the click of beat k is at the run's anchor plus k times
\* 60/tempo/subdivision, however the beats fell to the loop's iterations.
C12_Arithmetic ==
  \A j \in 1 .. Len(clicks) :
    LET c == clicks[j]
    IN (\A i \in 1 .. j :
          clicks[i].run = c.run =>
            clicks[i].tempo = c.tempo /\ clicks[i].subdivision = c.subdivision)
         => c.time * c.tempo * c.subdivision
              = c.anchor * c.tempo * c.subdivision + c.index * 60000

\* A run under one tempo and subdivision 2 has got its first three beats, from
\* more than one iteration of the loop.
C12_Witness ==
  /\ Len(clicks) >= 3
  /\ \A i \in 1 .. 3 :
       /\ clicks[i].index = i - 1 /\ clicks[i].run = 1
       /\ clicks[i].subdivision = 2 /\ clicks[i].tempo = 120
  /\ clicks[3].time - clicks[1].time = 500
  /\ nMetRaf >= 3

\* C13: a click once created keeps its time, accent and volume for good, and a
\* call of setTempo, setSubdivision or setVolume changes neither the clicks
\* created so far nor nextNoteTime nor the beat counter.
C13_NotRetroactive ==
  [][/\ Len(clicks') >= Len(clicks)
     /\ SubSeq(clicks', 1, Len(clicks)) = clicks
     /\ nMetSets' # nMetSets =>
          /\ clicks' = clicks
          /\ metNextNoteTime' = metNextNoteTime
          /\ metBeatCount' = metBeatCount]_vars

\* A louder volume was set after the first click of a run, and the second
\* click of the run was created with it while the first kept its own.
C13_Witness ==
  /\ Len(clicks) >= 2
  /\ clicks[1].run = clicks[2].run
  /\ clicks[1].volume = 60 /\ clicks[2].volume = 100
  /\ nMetSets = 1 /\ metConfigRef.volume = 100

C15_DebounceScenario ==
  LET fired == IF nLoud = 0 THEN 0 ELSE IF nLoud \in {1, 2} THEN 1 ELSE 2
  IN /\ wk[1].hitSeq = fired
     /\ seqRef = fired
     /\ Len(SelectSeq(delivered, LAMBDA m : m.kind = "stroke")) = fired

\* The three loud blocks have been fed after the floor had settled over three
\* blocks, and two strokes have come of them.
C15_Witness ==
  /\ nLoud = 3 /\ nBlocks = MaxSettle
  /\ wk[1].hitSeq = 2 /\ seqRef = 2
  /\ wk[1].lastHitTime = perfNow

\* C16 as stated: for a fixed floor and minDb, a higher sensitivity gives a
\* strictly higher thresholdDb, whatever the floor and minDb, on both paths.
C16_StrictlyIncreasing ==
  probe.op = "threshold" =>
    probe.worklet1 < probe.worklet2 /\ probe.fallback1 < probe.fallback2

\* C16 as the code has it: a higher sensitivity never gives a lower
\* thresholdDb, and gives a strictly higher one exactly when floorDb + 6 *
\* sensitivity of the higher one is above minDb; otherwise both are minDb.
C16_Monotone ==
  probe.op = "threshold" =>
    /\ probe.worklet1 <= probe.worklet2 /\ probe.fallback1 <= probe.fallback2
    /\ probe.worklet1 < probe.worklet2
         <=> ToDb(probe.floor) + 6 * probe.s2 > probe.minDb
    /\ probe.fallback1 < probe.fallback2
         <=> ToDb(probe.floor) + 6 * probe.s2 > probe.minDb
    /\ probe.worklet1 = probe.worklet2 => probe.worklet2 = probe.minDb

\* On a silent floor sensitivity 1.3 and sensitivity 4 both give minDb.
C16_Witness ==
  /\ probe.op = "threshold"
  /\ probe.floor = 0 /\ probe.s1 = 13 /\ probe.s2 = 40 /\ probe.minDb = -600
  /\ probe.worklet1 = -600 /\ probe.worklet2 = -600
  /\ probe.fallback1 = -600 /\ probe.fallback2 = -600

\* C17: of two runs over the same blocks and block times whose configs differ
\* in sensitivity alone, the one with the higher sensitivity has emitted no
\* more StrokeEvents than the one with the lower, after every block.
C17_CountMonotone ==
  /\ wk[2].hitSeq <= wk[1].hitSeq
  /\ Len(SelectSeq(wkOut[2], LAMBDA m : m.type = "stroke"))
       <= Len(SelectSeq(wkOut[1], LAMBDA m : m.type = "stroke"))

\* The higher sensitivity has accepted a block that the lower one held back by
\* its debounce, and both have emitted the same number of strokes.
C17_Witness ==
  /\ wk[2].hitSeq = wk[1].hitSeq /\ wk[1].hitSeq > 0
  /\ wk[2].lastHitTime > wk[1].lastHitTime
  /\ wk[1].sensitivity < wk[2].sensitivity

\* C18: under blocks of one rms r the floor after each block lies between its
\* value before the block and r, its distance to r is (1 - alpha) times the
\* distance before, and with alpha = 1 it is r after one block; in the units of
\* the two paths it lies between the value before and r as well.
C18_FloorConverges ==
  (probe.op = "floor" /\ probe.n > 0) =>
    LET a == probe.alpha
        r == probe.r
        x == probe.exact
        p == probe.prevExact
    IN /\ IF p.num <= r * p.den
          THEN 100 * p.num <= x.num /\ x.num <= r * x.den
          ELSE r * x.den <= x.num /\ x.num <= 100 * p.num
       /\ x.den = 100 * p.den
       /\ Abs(r * x.den - x.num) = (100 - a) * Abs(r * p.den - p.num)
       /\ (a = 100) => x.num = r * x.den
       /\ Min(probe.prevWorklet, 1000 * r) <= probe.worklet
       /\ probe.worklet <= Max(probe.prevWorklet, 1000 * r)
       /\ Min(probe.prevFallback, 1000 * r) <= probe.fallback
       /\ probe.fallback <= Max(probe.prevFallback, 1000 * r)
       /\ (a = 100) => (probe.worklet = 1000 * r /\ probe.fallback = 1000 * r)

\* Two blocks of one rms with alpha under 1 on a floor that started elsewhere:
\* the floor has moved towards r and has not reached it.
C18_Witness ==
  /\ probe.op = "floor" /\ probe.n = 2 /\ probe.alpha < 100
  /\ probe.exact.num < probe.r * probe.exact.den
  /\ 100 * probe.prevExact.num < probe.exact.num
  /\ probe.prevWorklet < probe.worklet /\ probe.worklet < 1000 * probe.r

ConfigFields == {"sensitivity", "debounceMs", "minDb", "alpha", "measureWindowMs"}

\* C19: a config message sets every field it carries to the carried value and
\* keeps every other field; a message of another type changes nothing; the
\* floor, the last-onset time, the sequence counter and the pending
\* measurement with its remaining count are as before the message.
C19_PartialUpdate ==
  (probe.op = "config") =>
    LET b == probe.before
        a == probe.after
        d == probe.data
    IN /\ \A f \in ConfigFields :
            a[f] = IF d.type = "config" /\ f \in DOMAIN d.cfg THEN d.cfg[f] ELSE b[f]
       /\ a.runId = IF d.type = "config" /\ d.runId # 0 THEN d.runId ELSE b.runId
       /\ a.energySMA = b.energySMA
       /\ a.lastHitTime = b.lastHitTime
       /\ a.hitSeq = b.hitSeq
       /\ a.pendingMeasure = b.pendingMeasure
       /\ a.exists = b.exists

\* A message carrying the sensitivity alone reached a processor that had
\* emitted a stroke and had its measurement window open.
C19_Witness ==
  /\ probe.op = "config"
  /\ probe.data.type = "config" /\ DOMAIN probe.data.cfg = {"sensitivity"}
  /\ probe.before.pendingMeasure.open /\ probe.before.pendingMeasure.remaining > 0
  /\ probe.before.hitSeq > 0 /\ probe.before.energySMA > 0
  /\ probe.after.sensitivity # probe.before.sensitivity
  /\ probe.after.debounceMs = probe.before.debounceMs
  /\ probe.after.pendingMeasure = probe.before.pendingMeasure


\* C20: every StrokeEvent and StrokeMeasurement delivered to the consumer
\* carries the run identifier that the start() call of its path generated,
\* whatever the order of the first config message and the first blocks.
C20_RunIdentity ==
  \A j \in 1 .. Len(delivered) :
    delivered[j].kind \in {"stroke", "measure"} =>
      delivered[j].runId = calls[1].runId


\* C21: when an onset is accepted while the measurement window of an earlier
\* onset is open, the window stays that of the earlier onset: after the block
\* it is either still open with the earlier sequenceId, or it was finalized in
\* that block and none was opened for the new onset.
C21_FirstOnsetWins ==
  [][ /\ (wk[1].pendingMeasure.open /\ wk'[1].hitSeq # wk[1].hitSeq) =>
           (wk'[1].pendingMeasure.open =>
              wk'[1].pendingMeasure.seq = wk[1].pendingMeasure.seq)
      /\ (fb[1].pendingMeasure.open /\ seqRef' # seqRef) =>
           (fb'[1].pendingMeasure.open =>
              fb'[1].pendingMeasure.seq = fb[1].pendingMeasure.seq) ]_vars


\* The sequenceIds of the messages of one type that call 1's path has emitted,
\* delivered to the consumer or still on the port.
EmittedSeqs(kind, type) ==
  [i \in 1 .. Len(delivered) + Len(wkOut[1]) |->
     IF i <= Len(delivered)
       THEN (IF delivered[i].kind = kind THEN delivered[i].seq ELSE 0)
       ELSE (IF wkOut[1][i - Len(delivered)].type = type
               THEN wkOut[1][i - Len(delivered)].seq ELSE 0)]

\* C22: every StrokeEvent emitted has, once no measurement window is open for
\* its sequenceId any more, exactly one StrokeMeasurement with its sequenceId;
\* while its window is open it has none yet.
C22_EveryStrokeMeasured ==
  LET s == EmittedSeqs("stroke", "stroke")
      m == EmittedSeqs("measure", "stroke-measure")
      pending == IF wk[1].exists THEN wk[1].pendingMeasure ELSE fb[1].pendingMeasure
  IN \A i \in DOMAIN s :
       s[i] # 0 =>
         LET n == Cardinality({ j \in DOMAIN m : m[j] = s[i] })
         IN IF pending.open /\ pending.seq = s[i] THEN n = 0 ELSE n = 1


\* The number of StrokeEvents in a sequence of messages of the processor, and
\* in a sequence of callbacks to the consumer.
StrokesPosted(q) == Len(SelectSeq(q, LAMBDA m : m.type = "stroke"))
StrokesHanded(q) == Len(SelectSeq(q, LAMBDA m : m.kind = "stroke"))

\* C23: every block first moves the floor to alpha * rms + (1 - alpha) * floor,
\* and emits a StrokeEvent if and only if, with that floor, its dB is over
\* max(floorDb + 6 * sensitivity, minDb), its rms is over floor * sensitivity
\* and more than debounceMs have passed since the last accepted onset; an
\* accepted onset sets the last-onset time to now and takes the next sequence
\* number, a rejected block leaves both; on the worklet path and the fallback.
C23_DecisionRule ==
  [][ \E amp \in DualAmplitudes :
        LET rms == 1000 * amp
            db == ToDb(rms)
            now == perfNow'
            p == wk[1]
            sma == (p.alpha * rms + (100 - p.alpha) * p.energySMA) \div 100
            thr == Max(ToDb(sma) + 6 * p.sensitivity, p.minDb)
            rule == /\ db > thr
                    /\ 10 * rms > sma * p.sensitivity
                    /\ now - p.lastHitTime > 3 * p.debounceMs
            g == calls[2].merged
            floor == (g.alpha * rms + (100 - g.alpha) * floorRef) \div 100
            thrF == Max(ToDb(floor) + 6 * g.sensitivity, g.minDb)
            ruleF == /\ db > thrF
                     /\ 10 * rms > floor * g.sensitivity
                     /\ now - lastHitRef > 3 * g.debounceMs
        IN /\ wkOut'[1][Len(wkOut'[1])].db = db
           /\ wk'[1].energySMA = sma
           /\ StrokesPosted(wkOut'[1]) = StrokesPosted(wkOut[1]) + (IF rule THEN 1 ELSE 0)
           /\ wk'[1].lastHitTime = IF rule THEN now ELSE p.lastHitTime
           /\ wk'[1].hitSeq = IF rule THEN p.hitSeq + 1 ELSE p.hitSeq
           /\ floorRef' = floor
           /\ StrokesHanded(delivered') = StrokesHanded(delivered) + (IF ruleF THEN 1 ELSE 0)
           /\ lastHitRef' = IF ruleF THEN now ELSE lastHitRef
           /\ seqRef' = IF ruleF THEN seqRef + 1 ELSE seqRef ]_vars

\* Two blocks: the first was accepted, the second was over its threshold and
\* was held back by the debounce alone.
C23_Witness ==
  /\ nBlocks = 2
  /\ wk[1].hitSeq = 1 /\ wk[1].lastHitTime < perfNow
  /\ Len(wkOut[1]) > 0
  /\ LET t == wkOut[1][Len(wkOut[1])]
     IN t.type = "telemetry" /\ t.db > t.thresholdDb
  /\ seqRef = 1 /\ lastHitRef < perfNow


\* The StrokeEvents among the messages of the processor in q after the first
\* n, and among the callbacks to the consumer in q after the first n.
NewPosted(q, n) == { q[i] : i \in { j \in n + 1 .. Len(q) : q[j].type = "stroke" } }
NewHanded(q, n) == { q[i] : i \in { j \in n + 1 .. Len(q) : q[j].kind = "stroke" } }

\* C24: every StrokeEvent a block emits, on the worklet path and on the
\* fallback, has decibels over its thresholdDb, and its thresholdDb is at
\* least the minDb and at least its floorDb + 6 * sensitivity of the config
\* the path holds at that block; so its decibels are over minDb.
C24_AbsoluteFloor ==
  [][ /\ \A e \in NewPosted(wkOut'[1], Len(wkOut[1])) :
           /\ e.db > e.thresholdDb
           /\ e.thresholdDb >= wk[1].minDb
           /\ e.thresholdDb >= e.floorDb + 6 * wk[1].sensitivity
           /\ e.db > wk[1].minDb
      /\ fb[1].exists =>
           \A e \in NewHanded(delivered', Len(delivered)) :
             /\ e.db > e.thresholdDb
             /\ e.thresholdDb >= calls[1].merged.minDb
             /\ e.thresholdDb >= e.floorDb + 6 * calls[1].merged.sensitivity
             /\ e.db > calls[1].merged.minDb ]_vars

\* A StrokeEvent whose threshold was minDb itself, the floor plus the offset
\* being under it, on the path of the run.
C24_Witness ==
  \/ \E i \in 1 .. Len(wkOut[1]) :
       /\ wkOut[1][i].type = "stroke"
       /\ wkOut[1][i].thresholdDb = wk[1].minDb
       /\ wkOut[1][i].floorDb + 6 * wk[1].sensitivity < wk[1].minDb
       /\ wkIn[1] = <<>>
  \/ /\ fb[1].exists
     /\ \E i \in 1 .. Len(delivered) :
          /\ delivered[i].kind = "stroke"
          /\ delivered[i].thresholdDb = calls[1].merged.minDb


\* The sequenceIds of the StrokeMeasurements among the messages of the
\* processor in q after the first n, and among the callbacks in q after the
\* first n.
NewMeasuresPosted(q, n) ==
  { q[i].seq : i \in { j \in n + 1 .. Len(q) : q[j].type = "stroke-measure" } }
NewMeasuresHanded(q, n) ==
  { q[i].seq : i \in { j \in n + 1 .. Len(q) : q[j].kind = "measure" } }

\* What a block of len samples does to a window w that was open before it, as
\* the accounting has it: min(remaining, len) samples go from remaining to
\* count; the window is finalized, with its own sequenceId, in this block if
\* that takes remaining to 0, and is still the open window otherwise.
WindowAccounted(w, after, measured, len) ==
  IF w.remaining <= len
    THEN w.seq \in measured /\ ~(after.open /\ after.seq = w.seq)
    ELSE /\ after.open /\ after.seq = w.seq
         /\ after.remaining = w.remaining - len
         /\ after.count = w.count + len
         /\ after.remaining > 0
         /\ w.seq \notin measured

\* C25: a window opens with remaining = max(1, round(sampleRate *
\* measureWindowMs / 1000)) and count 0 and gets the triggering block at once;
\* every block takes min(remaining, len) samples from remaining to count; an
\* open window has remaining > 0; a window is finalized and discarded in
\* exactly the block in which its remaining reaches 0, and in no other.
C25_WindowAccounting ==
  [][ (nBlocks' = nBlocks + 1) =>
        /\ wk[1].exists =>
             LET w == wk[1].pendingMeasure
                 a == wk'[1].pendingMeasure
                 measured == NewMeasuresPosted(wkOut'[1], Len(wkOut[1]))
                 fresh == [w EXCEPT !.open = TRUE, !.seq = wk'[1].hitSeq,
                                    !.remaining = wk[1].measureWindowFrames,
                                    !.count = 0]
             IN /\ a.open => a.remaining > 0
                /\ w.open => WindowAccounted(w, a, measured, QuantumFrames)
                /\ (~w.open /\ wk'[1].hitSeq # wk[1].hitSeq) =>
                     WindowAccounted(fresh, a, measured, QuantumFrames)
        /\ fb[1].exists =>
             LET w == fb[1].pendingMeasure
                 a == fb'[1].pendingMeasure
                 measured == NewMeasuresHanded(delivered', Len(delivered))
                 fresh == [w EXCEPT !.open = TRUE, !.seq = seqRef',
                                    !.remaining =
                                       MeasureWindowFrames(calls[1].merged.measureWindowMs),
                                    !.count = 0]
             IN /\ a.open => a.remaining > 0
                /\ w.open => WindowAccounted(w, a, measured, ScriptFrames)
                /\ (~w.open /\ seqRef' # seqRef) =>
                     WindowAccounted(fresh, a, measured, ScriptFrames) ]_vars


\* C26: the StrokeEvents the consumer receives with one run identifier carry
\* the sequenceIds 1, 2, 3, ... in the order received, without gap or repeat,
\* in every run.
C26_Sequence ==
  \A j \in 1 .. Len(delivered) :
    delivered[j].kind = "stroke" =>
      delivered[j].seq =
        1 + Cardinality({ i \in 1 .. j - 1 :
                            /\ delivered[i].kind = "stroke"
                            /\ delivered[i].runId = delivered[j].runId })


\* C27: the first block of a run finds the floor at 0, on the worklet path and
\* on the fallback, also in a run started after stop(). Stated for the second
\* block processed overall when the first was of another run, which makes it
\* the first block of its run.
C27_FloorReset ==
  [][ \A c \in Calls :
        ( /\ nBlocks = 1 /\ nBlocks' = 2
          /\ lastBlock.call # c /\ lastBlock'.call = c ) =>
          /\ wk[c].exists => wk[c].energySMA = 0
          /\ fb[c].exists => floorRef = 0 ]_vars


\* C28: a block without an input channel or without samples posts no message
\* and leaves the processor as it was: the floor, the last-onset time, the
\* sequence counter and the pending measurement window are unchanged, and no
\* floor of the processor is ever NaN.
C28_EmptySkipped ==
  /\ (probe.op = "empty") =>
       /\ probe.out = <<>>
       /\ probe.after.energySMA = probe.before.energySMA
       /\ probe.after.lastHitTime = probe.before.lastHitTime
       /\ probe.after.hitSeq = probe.before.hitSeq
       /\ probe.after.pendingMeasure = probe.before.pendingMeasure
       /\ probe.after = probe.before
  /\ \A c \in Calls : wk[c].energySMA # NaN
  /\ \A c \in Calls : \A i \in 1 .. Len(wkOut[c]) :
       wkOut[c][i].db # NaN /\ (wkOut[c][i].type # "stroke-measure" => wkOut[c][i].floorDb # NaN)

\* An empty block reached a processor that had emitted a stroke and had its
\* measurement window open.
C28_Witness ==
  /\ probe.op = "empty"
  /\ probe.before.pendingMeasure.open /\ probe.before.pendingMeasure.remaining > 0
  /\ probe.before.hitSeq > 0 /\ probe.before.energySMA > 0
  /\ probe.after.pendingMeasure.remaining = probe.before.pendingMeasure.remaining


\* C29: when the worklet path runs, every render has had its effects and no
\* config message is on its way to the processor, the processor's sensitivity,
\* debounceMs, minDb, alpha and measureWindowMs are those of the detector's
\* config, whenever updateConfig() was called.
C29_ConfigConsistent ==
  ( /\ status = "running" /\ workletNodeRef = 1 /\ wk[1].exists
    /\ ~configDirty /\ rConfig = config
    /\ wkIn[1] = <<>> ) =>
      \A f \in ConfigFields : wk[1][f] = config[f]


\* C30: whenever status is running, exactly one of the two paths is
\* established: the hook holds a worklet node or a ScriptProcessor node, not
\* both and not neither.
C30_OnePath ==
  (status = "running") =>
    /\ workletNodeRef # 0 \/ scriptNodeRef # 0
    /\ ~(workletNodeRef # 0 /\ scriptNodeRef # 0)


\* C31: at most one microphone stream and at most one AudioContext of the
\* detector are live, and a stream or context that is live is the one the
\* detector's ref holds.
C31_SingleRun ==
  /\ Cardinality({ c \in Calls : trackLive[c] }) <= 1
  /\ Cardinality({ c \in Calls : ctxState[c] = "open" }) <= 1
  /\ \A c \in Calls : trackLive[c] => streamRef = c
  /\ \A c \in Calls : ctxState[c] = "open" => ctxRef = c


\* C32: a click is an accent if and only if the beat counter it was scheduled
\* at is a multiple of the subdivision the loop read; so in a run under one
\* subdivision s beat k is an accent iff k mod s = 0.
C32_AccentPattern ==
  \A j \in 1 .. Len(clicks) :
    clicks[j].accent <=> (clicks[j].index % clicks[j].subdivision = 0)

\* The first three beats of a run under subdivision 2: accent, none, accent.
C32_Witness ==
  /\ Len(clicks) >= 3
  /\ \A i \in 1 .. 3 :
       /\ clicks[i].run = 1 /\ clicks[i].index = i - 1 /\ clicks[i].subdivision = 2
  /\ clicks[1].accent /\ ~clicks[2].accent /\ clicks[3].accent

\* C33: whatever volume of [0, 1] was set, every target that a click's
\* exponential gain ramps are asked to reach is strictly positive.
C33_PositiveTargets ==
  \A t \in metLoop.targets : t > 0

ScheduleRan ==
  /\ metLoop'.calls = metLoop.calls + 1
  /\ metConfigRef.tempo > 0 /\ metConfigRef.subdivision >= 1

\* The clicks the step created.
NewClicks == {clicks'[j] : j \in Len(clicks) + 1 .. Len(clicks')}

\* After schedule() nextNoteTime is at least the clock it read plus the
\* lookahead.
WindowFilled ==
  [][ScheduleRan => metNextNoteTime' >= metLoop'.now + Lookahead]_vars

\* Within a run every beat index is scheduled once, at strictly increasing times.
OncePerBeat ==
  \A j \in 1 .. Len(clicks) : \A i \in 1 .. j - 1 :
    clicks[i].run = clicks[j].run =>
      clicks[i].index < clicks[j].index /\ clicks[i].time < clicks[j].time

\* When the invocation before this one, if the run had one, was less than the
\* lookahead ago on the audio clock, no click is created at a time the clock
\* has passed.
NotInThePast ==
  [][(/\ ScheduleRan
      /\ metLoop.run = metLoop'.run => metLoop'.now - metLoop.now < Lookahead)
       => \A c \in NewClicks : c.time >= metLoop'.now]_vars

\* C35: while the metronome runs with tempo > 0 and subdivision >= 1, after
\* every invocation of the scheduling loop nextNoteTime >= currentTime +
\* lookahead; every beat index is scheduled exactly once, at strictly
\* increasing times; and when consecutive invocations are less than the
\* lookahead apart on the audio clock, every click is created at a time not
\* earlier than the clock's current time.
C35_LookaheadWindow ==
  /\ WindowFilled
  /\ []OncePerBeat
  /\ NotInThePast

\* The AudioContexts of the metronome that are not closed.
MetOpen == {k \in MetCalls : metCtx[k].state \in {"suspended", "running"}}

\* No invocation of start() is at its await.
MetSettled == \A k \in MetCalls : metCalls[k] # "resume"

\* C36: however start() and stop() of the metronome interleave, at most one
\* AudioContext is open; and once no start() is at its await, isRunning true
\* goes with an open context in ctxRef and a pending callback of the loop,
\* isRunning false with no context held or open and no callback pending.
C36_RunState ==
  /\ Cardinality(MetOpen) <= 1
  /\ MetSettled =>
       IF metIsRunning
         THEN metCtxRef \in MetOpen /\ metRaf # {}
         ELSE metCtxRef = 0 /\ MetOpen = {} /\ metRaf = {}

====
